---- MODULE Spec2Model ----
(***************************************************************************)
(* Model of notebooks/manage_local_batch.py: the cells that plan chunks,   *)
(* write chunk manifests, generate the per-chunk / resume / per-GPU        *)
(* scripts, and the state those cells leave in memory and in the job       *)
(* folder.                                                                 *)
(*                                                                         *)
(* Conventions                                                             *)
(*  - Python None is the empty tuple <<>>, a set value v is <<v>>.         *)
(*  - An image path is a natural number: its rank in the lexicographic     *)
(*    order of the normalized absolute paths, so sorted() is numeric sort. *)
(*  - A file path is a sequence of string segments; str.replace and        *)
(*    os.path.join act on segments.                                        *)
(*  - input_path and the image paths inside result files are sequences of  *)
(*    characters; startswith, replace, isabs and join act on characters.   *)
(*  - A command is the sequence of its whitespace-separated shell words;   *)
(*    an option string that is '' contributes no word.                     *)
(***************************************************************************)
EXTENDS Integers, Sequences, FiniteSets, TLC

(***************************************************************************)
(* Bounds of the model                                                     *)
(***************************************************************************)
MaxImages == 3
MaxJobs == 3
MaxGpus == 2
MaxRuns == 2
MaxDefects == 2
MaxNameLen == 5

(***************************************************************************)
(* Python values                                                           *)
(***************************************************************************)
None == <<>>

Some(v) == <<v>>

PyBool(b) == <<"bool", b>>

PyStr(s) == <<"str", s>>

\* Python truth value of a bool or a str
Truthy(v) == IF v[1] = "bool" THEN v[2] ELSE v[2] # ""

RECURSIVE ZFill(_, _)
\* str.zfill(width)
ZFill(s, width) == IF Len(s) >= width THEN s ELSE ZFill("0" \o s, width)

RECURSIVE Insert(_, _)
Insert(x, s) ==
    IF s = <<>> THEN <<x>>
    ELSE IF x <= Head(s) THEN <<x>> \o s
    ELSE <<Head(s)>> \o Insert(x, Tail(s))

RECURSIVE sorted(_)
\* sorted(list)
sorted(s) == IF s = <<>> THEN <<>> ELSE Insert(Head(s), sorted(Tail(s)))

\* every order in which the elements of a finite set can be listed
Orders(S) == {f \in [1..Cardinality(S) -> S] : \A i, j \in DOMAIN f : f[i] = f[j] => i = j}

RECURSIVE Flatten(_)
\* list.extend over a list of lists
Flatten(ss) == IF ss = <<>> THEN <<>> ELSE Head(ss) \o Flatten(Tail(ss))

Min(a, b) == IF a < b THEN a ELSE b

\* the last index of a loop among those that wrote the same key
LastOf(S) == CHOOSE i \in S : \A j \in S : j <= i

\* str.replace(old, new) on a path: every segment equal to old becomes new
Replace(path, old, new) == [k \in DOMAIN path |-> IF path[k] = old THEN new ELSE path[k]]

\* os.path.join(folder, name)
PathJoin(folder, name) == folder \o <<"/">> \o name

(***************************************************************************)
(* Python string and os.path functions on character strings                *)
(***************************************************************************)
\* str.startswith(prefix)
StartsWith(s, prefix) == Len(s) >= Len(prefix) /\ SubSeq(s, 1, Len(prefix)) = prefix

\* str.endswith(ch) for a single character
EndsWith(s, ch) == Len(s) > 0 /\ s[Len(s)] = ch

\* str.find(old) + 1: the position of the first occurrence, 0 when there is none
Find(s, old) ==
    LET hits == {k \in 1..(Len(s) - Len(old) + 1) : SubSeq(s, k, k + Len(old) - 1) = old}
    IN  IF hits = {} THEN 0 ELSE CHOOSE k \in hits : \A j \in hits : k <= j

\* str.replace(old, '', 1): the first occurrence of old, wherever it is, removed
ReplaceFirst(s, old) ==
    LET at == Find(s, old)
    IN  IF at = 0 THEN s ELSE SubSeq(s, 1, at - 1) \o SubSeq(s, at + Len(old), Len(s))

\* str.replace('\\', '/')
ConvertSlashes(s) == [k \in DOMAIN s |-> IF s[k] = "\\" THEN "/" ELSE s[k]]

\* os.sep and os.altsep
Seps(nt) == IF nt THEN {"/", "\\"} ELSE {"/"}

\* os.path.splitdrive(s)[0]: a drive letter and ':' on nt, '' elsewhere
DriveOf(nt, s) == IF nt /\ Len(s) >= 2 /\ s[2] = ":" THEN SubSeq(s, 1, 2) ELSE <<>>

\* os.path.splitdrive(s)[1]
AfterDrive(nt, s) == SubSeq(s, Len(DriveOf(nt, s)) + 1, Len(s))

\* os.path.isabs(s): posixpath tests the first character, ntpath the first
\* character after the drive
IsAbs(nt, s) == LET rest == AfterDrive(nt, s) IN Len(rest) > 0 /\ rest[1] \in Seps(nt)

\* os.path.join(a, b) of posixpath and of ntpath (drive letters of one case)
os_path_join(nt, a, b) ==
    IF ~nt
    THEN IF StartsWith(b, <<"/">>) THEN b
         ELSE IF a = <<>> \/ EndsWith(a, "/") THEN a \o b
         ELSE a \o <<"/">> \o b
    ELSE LET a_drive == DriveOf(nt, a)
             a_path == AfterDrive(nt, a)
             b_drive == DriveOf(nt, b)
             b_path == AfterDrive(nt, b)
         IN  IF Len(b_path) > 0 /\ b_path[1] \in Seps(nt)
             THEN (IF b_drive # <<>> \/ a_drive = <<>> THEN b_drive ELSE a_drive) \o b_path
             ELSE IF b_drive # <<>> /\ b_drive # a_drive THEN b_drive \o b_path
             ELSE a_drive
                  \o (IF Len(a_path) > 0 /\ a_path[Len(a_path)] \notin Seps(nt)
                      THEN a_path \o <<"\\">> ELSE a_path)
                  \o b_path

(***************************************************************************)
(* Module-level constants of the script                                    *)
(***************************************************************************)
default_gpu_number == 0

overwrite_handling == "skip"

model_file == "MDV5A"

postprocessing_base == <<"~/postprocessing">>

OrganizationPlaceholder == "organization"

\* script_header: non-empty only when os.name is not 'nt'
\* the lines of script_header
script_header(nt) ==
    IF nt THEN <<>> ELSE << << <<"#!/bin/bash">> >>, <<>>, << <<"set">>, <<"-e">> >> >>

script_extension(nt) == IF nt THEN ".bat" ELSE ".sh"

(***************************************************************************)
(* State                                                                   *)
(***************************************************************************)
VARIABLES
    cfg,              \* the module-level settings the operator edits
    pc,               \* the next cell to run, "halted" after a raised error,
                      \* "generated" / "regenerated" after the last cell
    disk,             \* the image files currently under input_path
    runs,             \* number of times planning was started over
    base_task_name,   \* None until the constants cell has built it
    base_output_folder_name,
    filename_base,    \* None until the validation cell has built it
    dirs,             \* directories created by os.makedirs
    chunk_files,      \* manifest names found in filename_base
    all_images,
    folder_chunks,
    task_info,
    manifests,        \* chunk manifest files on disk: path -> list of images
    gpu_to_scripts,
    scripts,          \* script files on disk: path -> list of lines
    executable,       \* script files with the S_IEXEC bit set
    procs,            \* the shells running per-GPU scripts: gpu -> process
    outputs,          \* per-chunk result files on disk: path -> payload
    missing_output_files,
    n_total_failures,
    combined_results,
    combined_api_output,  \* the combined result file, None while not written
    raised,           \* None, or the check on which a cell stopped
    printed,          \* the paths the output of the raised error names
    checkpoints,      \* the checkpoint files on disk
    inproc,           \* None, or the task and the statement the cell that runs
                      \* the tasks in the notebook is at
    events,           \* what that cell has done so far, in order
    path_case         \* None, or a root and a path the path functions are applied to

\* the state of the cell that runs the tasks in the notebook
notebookVars == <<checkpoints, inproc, events>>

\* the state of the cells after "Generate commands" and of the processes the
\* operator starts outside the notebook
laterVars == <<procs, outputs, missing_output_files, n_total_failures, combined_results,
               combined_api_output, raised, printed, notebookVars, path_case>>

vars == <<cfg, pc, disk, runs, base_task_name, base_output_folder_name, filename_base, dirs, chunk_files,
          all_images, folder_chunks, task_info, manifests, gpu_to_scripts,
          scripts, executable, laterVars>>

Images == 1..MaxImages

(***************************************************************************)
(* The image folders                                                       *)
(***************************************************************************)
\* the folder the images 1..MaxImages are in
HomeRoot(nt) == IF nt THEN <<"c", ":", "/", "d">> ELSE <<"/", "d">>

\* a second image folder whose name starts with the name of the first
OtherRoot(nt) == HomeRoot(nt) \o <<"x">>

\* a drive as input_path
DriveRoot == <<"c", ":">>

\* the one image of the second folder; it sorts after the images of the first
ForeignImage == MaxImages + 1

\* the path of an image inside its folder
NameOf(i) == <<"d", "/">> \o [k \in 1..i |-> "a"]

\* the path find_images(input_path, recursive=True, convert_slashes=True)
\* returns for an image: os.path.join of the folder and the name, with
\* forward slashes
ImagePath(c, i) ==
    IF i = ForeignImage
    THEN ConvertSlashes(os_path_join(c.os_name_nt, OtherRoot(c.os_name_nt), NameOf(1)))
    ELSE ConvertSlashes(os_path_join(c.os_name_nt,
             IF c.input_path = DriveRoot THEN DriveRoot ELSE HomeRoot(c.os_name_nt), NameOf(i)))

\* the images find_images finds under input_path when every image is there
ImagesUnder(c) == IF c.input_path = OtherRoot(c.os_name_nt) THEN {ForeignImage} ELSE Images

(***************************************************************************)
(* Settings                                                                *)
(***************************************************************************)
\* the values the script ships with (lines 90-214, 219-249), with the three
\* required settings filled in
DefaultConfig ==
    [ input_path |-> <<"/", "d">>,
      input_path_isdir |-> TRUE,
      max_tolerable_failed_images |-> 100,
      organization_name_short |-> "bibblebop",
      job_date |-> Some("2023-07-26"),
      job_tag |-> None,
      n_jobs |-> 2,
      n_gpus |-> 2,
      checkpoint_frequency |-> Some(10000),
      use_image_queue |-> FALSE,
      augment |-> FALSE,
      use_yolo_inference_scripts |-> FALSE,
      use_tiled_inference |-> FALSE,
      json_threshold |-> None,
      image_size |-> None,
      ncores |-> 1,
      quiet_mode |-> TRUE,
      include_image_size |-> FALSE,
      include_image_timestamp |-> FALSE,
      include_exif_data |-> FALSE,
      detector_options |-> None,
      force_enumeration |-> FALSE,
      write_yolo_debug_output |-> PyBool(FALSE),
      os_name_nt |-> FALSE ]

CheckpointFrequencies == {None, Some(0), Some(10000)}

\* every combination of the inference modes, the required settings, the
\* platform, the job tag and the job / GPU counts, with the remaining options
\* at default
ModeConfigs ==
    { [DefaultConfig EXCEPT
          !.input_path_isdir = req[1],
          !.organization_name_short = req[2],
          !.job_date = req[3],
          !.use_image_queue = m[1],
          !.augment = m[2],
          !.use_yolo_inference_scripts = m[3],
          !.use_tiled_inference = m[4],
          !.checkpoint_frequency = cf,
          !.os_name_nt = nt,
          !.job_tag = tag,
          !.n_jobs = nj,
          !.n_gpus = ng] :
        req \in BOOLEAN \X {OrganizationPlaceholder, "bibblebop"} \X {None, Some("2023-07-26")},
        m \in BOOLEAN \X BOOLEAN \X BOOLEAN \X BOOLEAN,
        cf \in CheckpointFrequencies,
        nt \in BOOLEAN,
        tag \in {None, Some("v2")},
        nj \in 1..MaxJobs,
        ng \in 1..MaxGpus }

\* every combination of the optional command-line settings with every
\* combination of the inference modes
OptionConfigs ==
    { [DefaultConfig EXCEPT
          !.use_image_queue = m[1],
          !.augment = m[2],
          !.use_yolo_inference_scripts = m[3],
          !.use_tiled_inference = m[4],
          !.checkpoint_frequency = cf,
          !.json_threshold = o[1],
          !.image_size = o[2],
          !.ncores = o[3],
          !.quiet_mode = o[4],
          !.detector_options = o[5],
          !.include_image_size = inc[1],
          !.include_image_timestamp = inc[2],
          !.include_exif_data = inc[3],
          !.write_yolo_debug_output = PyBool(dbg)] :
        m \in BOOLEAN \X BOOLEAN \X BOOLEAN \X BOOLEAN,
        cf \in CheckpointFrequencies,
        o \in {None, Some("0.1")} \X {None, Some(640)} \X {1, 4} \X BOOLEAN
              \X {None, Some("compatibility_mode=classic")},
        inc \in BOOLEAN \X BOOLEAN \X BOOLEAN,
        dbg \in BOOLEAN }

\* the shipped defaults with every job count and both enumeration policies
PlanConfigs ==
    { [DefaultConfig EXCEPT !.n_jobs = nj, !.force_enumeration = fe, !.input_path_isdir = ok] :
        nj \in 1..MaxJobs, fe \in BOOLEAN, ok \in BOOLEAN }

(***************************************************************************)
(* Initial state: a fresh interpreter and an empty job folder              *)
(***************************************************************************)
\* a fresh interpreter: no cell has run
FreshSession ==
    /\ pc = "constants"
    /\ runs = 0
    /\ base_task_name = None
    /\ base_output_folder_name = None
    /\ filename_base = None
    /\ dirs = {}
    /\ chunk_files = {}
    /\ all_images = <<>>
    /\ folder_chunks = <<>>
    /\ task_info = <<>>
    /\ manifests = <<>>
    /\ gpu_to_scripts = <<>>
    /\ scripts = <<>>
    /\ executable = {}
    /\ procs = <<>>
    /\ outputs = <<>>
    /\ missing_output_files = <<>>
    /\ n_total_failures = 0
    /\ combined_results = None
    /\ raised = None
    /\ printed = <<>>
    /\ checkpoints = {}
    /\ inproc = None
    /\ events = <<>>
    /\ path_case = None

\* a fresh interpreter and an empty job folder
Fresh == FreshSession /\ combined_api_output = None

Init ==
    /\ cfg \in ModeConfigs \cup OptionConfigs
    /\ disk = Images
    /\ Fresh

InitPlan ==
    /\ cfg \in PlanConfigs
    /\ disk \in SUBSET Images
    /\ Fresh

(***************************************************************************)
(* #%% Constants I set per script                                          *)
(***************************************************************************)
\* get_detector_version_from_model_file(model_file)
detector_version == "v5a.0.0"

job_description_string(c) == IF c.job_tag = None THEN "" ELSE "-" \o c.job_tag[1]

BaseTaskName(c) ==
    c.organization_name_short \o "-" \o c.job_date[1] \o job_description_string(c)
        \o "-" \o detector_version

\* line 227 without its check of the organization placeholder
RequiredSettingsOkNoOrganizationCheck(c) ==
    /\ c.input_path_isdir
    /\ c.job_date # None

\* the two asserts on the required settings (lines 222 and 227)
RequiredSettingsOk(c) ==
    /\ c.input_path_isdir
    /\ c.job_date # None /\ c.organization_name_short # OrganizationPlaceholder

ConstantsCell ==
    /\ pc = "constants"
    /\ IF RequiredSettingsOk(cfg)
       THEN /\ base_task_name' = Some(BaseTaskName(cfg))
            /\ base_output_folder_name' =
                   Some(PathJoin(postprocessing_base, <<cfg.organization_name_short>>))
            /\ dirs' = dirs \cup {PathJoin(postprocessing_base, <<cfg.organization_name_short>>)}
            /\ pc' = "validation"
       ELSE /\ pc' = "halted"
            /\ UNCHANGED <<base_task_name, base_output_folder_name, dirs>>
    /\ UNCHANGED <<cfg, disk, runs, filename_base, chunk_files, all_images, folder_chunks,
                   task_info, manifests, gpu_to_scripts, scripts, executable>>
    /\ UNCHANGED laterVars

(***************************************************************************)
(* #%% Derived variables, constant validation, path setup                  *)
(***************************************************************************)
\* the asserts of lines 266-283 without the image-queue assert
ModesOkNoQueueCheck(c) ==
    /\ c.augment => (c.checkpoint_frequency = None /\ c.use_yolo_inference_scripts)
    /\ c.use_tiled_inference =>
          (~c.augment /\ ~c.use_yolo_inference_scripts /\ c.checkpoint_frequency = None)

\* the asserts of lines 266-283 without the backend assert of line 280
ModesOkNoBackendCheck(c) ==
    /\ c.use_image_queue => c.checkpoint_frequency = None
    /\ c.augment => (c.checkpoint_frequency = None /\ c.use_yolo_inference_scripts)
    /\ c.use_tiled_inference => (~c.augment /\ c.checkpoint_frequency = None)

\* the asserts of lines 266-283
ModesOk(c) ==
    /\ c.use_image_queue => c.checkpoint_frequency = None
    /\ c.augment => (c.checkpoint_frequency = None /\ c.use_yolo_inference_scripts)
    /\ c.use_tiled_inference =>
          (~c.augment /\ ~c.use_yolo_inference_scripts /\ c.checkpoint_frequency = None)

FilenameBase == PathJoin(base_output_folder_name[1], <<base_task_name[1]>>)

combined_api_output_folder == PathJoin(filename_base[1], <<"combined_api_outputs">>)

postprocessing_output_folder == PathJoin(filename_base[1], <<"preview">>)

ValidationCell ==
    /\ pc = "validation"
    /\ IF ModesOk(cfg)
       THEN /\ filename_base' = Some(FilenameBase)
            /\ dirs' = dirs \cup { FilenameBase,
                                   PathJoin(FilenameBase, <<"combined_api_outputs">>),
                                   PathJoin(FilenameBase, <<"preview">>) }
            /\ pc' = "enumerate"
       ELSE /\ pc' = "halted"
            /\ UNCHANGED <<filename_base, dirs>>
    /\ UNCHANGED <<cfg, disk, runs, base_task_name, base_output_folder_name, chunk_files,
                   all_images, folder_chunks, task_info, manifests, gpu_to_scripts,
                   scripts, executable>>
    /\ UNCHANGED laterVars

(***************************************************************************)
(* #%% Enumerate files                                                     *)
(***************************************************************************)
\* the file name of a path inside filename_base
NameIn(folder, path) == SubSeq(path, Len(folder) + 2, Len(path))

\* os.listdir(filename_base)
ListDir(folder) ==
    {NameIn(folder, p) : p \in DOMAIN manifests} \cup {NameIn(folder, p) : p \in DOMAIN scripts}
        \cup {NameIn(folder, p) : p \in DOMAIN outputs} \cup {NameIn(folder, p) : p \in checkpoints}
        \cup {NameIn(folder, d) : d \in {q \in dirs : Len(q) > Len(folder)}}

\* the strings \d+ matches among the numbers the script formats
DigitStrings == {ZFill(ToString(i), w) : i \in 0..(MaxJobs + MaxGpus + 1), w \in {2, 3}}

\* re.compile('chunk\d+.json').match(fn): anchored at the start of the name,
\* '.' matches any one character, anything may follow
PatternMatch(fn) ==
    /\ Len(fn) >= 3
    /\ fn[1] = "chunk"
    /\ fn[2] \in DigitStrings
    /\ fn[3] \in {".json"}

\* the content of a manifest file whose JSON value is not a list (0 is no
\* image)
NotAList == <<0>>

\* line 319 passing for every value
IsListAlways(chunk) == TRUE

\* line 319: isinstance(chunk,list)
IsList(chunk) == chunk # NotAList

\* lines 315-321 over the contents of the chunk files in the order of the
\* listing: the assert of line 319 stops the cell at the first chunk that is
\* not a list, with the chunks before it in all_images
LoadedChunks(chunks) ==
    LET bad == {k \in DOMAIN chunks : ~IsList(chunks[k])}
    IN  IF bad = {}
        THEN /\ all_images' = sorted(Flatten(chunks))
             /\ pc' = "divide"
        ELSE /\ all_images' = Flatten(SubSeq(chunks, 1,
                                  (CHOOSE k \in bad : \A j \in bad : k <= j) - 1))
             /\ pc' = "halted"

\* find_images(input_path, recursive=True) lists the images on disk in some
\* order; absolute paths never start with '$RECYCLE' or 'System Volume
\* Information', so the filter of lines 334-335 keeps all of them
EnumerateFiles ==
    /\ pc = "enumerate"
    /\ LET found == {fn \in ListDir(filename_base[1]) : PatternMatch(fn)} IN
         /\ chunk_files' = found
         /\ IF ~cfg.force_enumeration /\ Cardinality(found) > 0
            THEN \E order \in Orders(found) :
                   LoadedChunks([k \in DOMAIN order |-> manifests[PathJoin(filename_base[1], order[k])]])
            ELSE /\ \E listing \in Orders(disk) : all_images' = sorted(listing)
                 /\ pc' = "divide"
    /\ UNCHANGED <<cfg, disk, runs, base_task_name, base_output_folder_name, filename_base,
                   dirs, folder_chunks, task_info, manifests, gpu_to_scripts, scripts,
                   executable>>
    /\ UNCHANGED laterVars

(***************************************************************************)
(* #%% Divide images into chunks                                           *)
(***************************************************************************)
\* number of chunks for a list of m elements and a chunk count n
NumChunks(m, n) == IF m < n THEN m ELSE n

\* split_list_into_n_chunks(L, n): contiguous slices in list order, the
\* first (m mod k) slices one element longer than the rest
split_list_into_n_chunks(L, n) ==
    LET m == Len(L)
        k == NumChunks(m, n)
    IN  IF k = 0 THEN <<>>
        ELSE LET q == m \div k
                 r == m % k
             IN  [i \in 1..k |->
                     SubSeq(L, (i - 1) * q + Min(i - 1, r) + 1, i * q + Min(i, r))]

DivideImages ==
    /\ pc = "divide"
    /\ folder_chunks' = split_list_into_n_chunks(all_images, cfg.n_jobs)
    /\ pc' = "write_lists"
    /\ UNCHANGED <<cfg, disk, runs, base_task_name, base_output_folder_name, filename_base,
                   dirs, chunk_files, all_images, task_info, manifests, gpu_to_scripts,
                   scripts, executable>>
    /\ UNCHANGED laterVars

(***************************************************************************)
(* #%% Write file lists                                                    *)
(***************************************************************************)
\* a function extended or overwritten at the keys of another (file writes)
Overwrite(old, new) ==
    [p \in DOMAIN old \cup DOMAIN new |-> IF p \in DOMAIN new THEN new[p] ELSE old[p]]

\* the manifest name without the chunk index formatted into it
ChunkFnUnnumbered(i_chunk) ==
    PathJoin(filename_base[1], <<"chunk", ZFill(ToString(0), 3), ".json">>)

\* 'chunk{}.json'.format(str(i_chunk).zfill(3)) inside filename_base
ChunkFn(i_chunk) ==
    PathJoin(filename_base[1], <<"chunk", ZFill(ToString(i_chunk), 3), ".json">>)

WriteFileLists ==
    /\ pc = "write_lists"
    /\ task_info' = [i \in DOMAIN folder_chunks |-> [id |-> i - 1, input_file |-> ChunkFn(i - 1)]]
    /\ manifests' = Overwrite(manifests,
                        [p \in {ChunkFn(i - 1) : i \in DOMAIN folder_chunks} |->
                            folder_chunks[LastOf({i \in DOMAIN folder_chunks : ChunkFn(i - 1) = p})]])
    /\ pc' = "generate"
    /\ UNCHANGED <<cfg, disk, runs, base_task_name, base_output_folder_name, filename_base,
                   dirs, chunk_files, all_images, folder_chunks, gpu_to_scripts, scripts,
                   executable>>
    /\ UNCHANGED laterVars

(***************************************************************************)
(* #%% Generate commands                                                   *)
(***************************************************************************)
\* a literal shell word
W(str) == <<str>>

\* a path or value between double quotes, one shell word
Quote(path) == <<"\"">> \o path \o <<"\"">>

\* the end of line that closes the YOLO command
Newline == <<"\n">>

\* constants of the YOLO and tiled branches (lines 183-214)
yolo_working_dir == Some(<<"~/git/yolov5">>)

yolo_dataset_file == None

yolo_model_type == None

yolo_batch_size == 1

remove_yolo_intermediate_results == TRUE

remove_yolo_symlink_folder == TRUE

use_symlinks_for_yolo_inference == TRUE

remove_tiles == TRUE

tile_size == Some(<<1280, 1280>>)

tile_overlap == Some("0.2")

DEFAULT_OUTPUT_CONFIDENCE_THRESHOLD == "0.005"

CheckpointFilename(chunk_file) == Replace(chunk_file, ".json", "_checkpoint.json")

OutputFn(chunk_file) == Replace(chunk_file, ".json", "_results.json")

\* lines 391-394 with the two branches exchanged
GpuNumberBranchesSwapped(c, i_task) ==
    IF c.n_gpus > 1 THEN default_gpu_number ELSE i_task % c.n_gpus

\* lines 391-394
GpuNumber(c, i_task) == IF c.n_gpus > 1 THEN i_task % c.n_gpus ELSE default_gpu_number

\* lines 396-398 without the test for None
image_size_string_unguarded(c) ==
    <<W("--image_size"), W(IF c.image_size = None THEN "None" ELSE ToString(c.image_size[1]))>>

\* lines 396-398
image_size_string(c) ==
    IF c.image_size # None THEN <<W("--image_size"), W(ToString(c.image_size[1]))>> ELSE <<>>

\* lines 467-470 and 489-492
cuda_string(c, gpu_number) ==
    IF c.os_name_nt
    THEN <<W("set"), <<"CUDA_VISIBLE_DEVICES=", ToString(gpu_number)>>, W("&")>>
    ELSE << <<"CUDA_VISIBLE_DEVICES=", ToString(gpu_number)>> >>

\* lines 402-460; write_yolo_debug_output_string is '' whatever the setting
YoloCmd(c, i_task, chunk_file) ==
    LET gpu_number == GpuNumber(c, i_task)
        augment_string == IF c.augment THEN <<W("--augment_enabled"), W("1")>>
                          ELSE <<W("--augment_enabled"), W("0")>>
        batch_string == <<W("--batch_size"), W(ToString(yolo_batch_size))>>
        symlink_folder == PathJoin(filename_base[1],
                              <<"symlinks", "/", "symlinks_", ZFill(ToString(i_task), 3)>>)
        yolo_results_folder == PathJoin(filename_base[1],
                              <<"yolo_results", "/", "yolo_results_", ZFill(ToString(i_task), 3)>>)
        symlink_folder_string == <<W("--symlink_folder"), Quote(symlink_folder)>>
        yolo_results_folder_string == <<W("--yolo_results_folder"), Quote(yolo_results_folder)>>
        remove_symlink_folder_string ==
            IF ~remove_yolo_symlink_folder THEN <<W("--no_remove_symlink_folder")>> ELSE <<>>
        write_yolo_debug_output_string == <<>>
        remove_yolo_results_string ==
            IF ~remove_yolo_intermediate_results THEN <<W("--no_remove_yolo_results_folder")>>
            ELSE <<>>
        confidence_threshold_string ==
            IF c.json_threshold # None THEN <<W("--conf_thres"), W(c.json_threshold[1])>>
            ELSE <<W("--conf_thres"), W(DEFAULT_OUTPUT_CONFIDENCE_THRESHOLD)>>
        device_string == <<W("--device"), W(ToString(gpu_number))>>
        overwrite_handling_string == <<W("--overwrite_handling"), W(overwrite_handling)>>
    IN  <<W("python"), W("run_inference_with_yolov5_val.py"), Quote(<<model_file>>),
          Quote(chunk_file), Quote(OutputFn(chunk_file))>>
        \o image_size_string(c) \o augment_string
        \o symlink_folder_string \o yolo_results_folder_string \o remove_yolo_results_string
        \o remove_symlink_folder_string \o confidence_threshold_string \o device_string
        \o overwrite_handling_string \o batch_string \o write_yolo_debug_output_string
        \o (IF yolo_working_dir # None
            THEN <<W("--yolo_working_folder"), Quote(yolo_working_dir[1])>> ELSE <<>>)
        \o (IF yolo_dataset_file # None
            THEN <<W("--yolo_dataset_file"), Quote(yolo_dataset_file[1])>> ELSE <<>>)
        \o (IF yolo_model_type # None
            THEN <<W("--model_type"), W(yolo_model_type[1])>> ELSE <<>>)
        \o (IF ~use_symlinks_for_yolo_inference THEN <<W("--no_use_symlinks")>> ELSE <<>>)
        \o <<Newline>>

\* lines 462-485
TiledCmd(c, i_task, chunk_file) ==
    LET gpu_number == GpuNumber(c, i_task)
        tiling_folder == PathJoin(filename_base[1],
                              <<"tile_cache", "/", "tile_cache_", ZFill(ToString(i_task), 3)>>)
    IN  cuda_string(c, gpu_number)
        \o <<W("python"), W("run_tiled_inference.py"), Quote(<<model_file>>), Quote(c.input_path),
             Quote(tiling_folder), Quote(OutputFn(chunk_file))>>
        \o <<W("--image_list"), Quote(chunk_file)>>
        \o <<W("--overwrite_handling"), W(overwrite_handling)>>
        \o (IF ~remove_tiles THEN <<W("--no_remove_tiles")>> ELSE <<>>)
        \o (IF tile_size # None /\ (tile_size[1][1] > 0 \/ tile_size[1][2] > 0)
            THEN <<W("--tile_size_x"), W(ToString(tile_size[1][1])),
                   W("--tile_size_y"), W(ToString(tile_size[1][2]))>>
            ELSE <<>>)
        \o (IF tile_overlap # None THEN <<W("--tile_overlap"), W(tile_overlap[1])>> ELSE <<>>)

\* line 497: the condition under which the checkpoint options are rendered
CheckpointOptionsRendered(c) ==
    c.checkpoint_frequency # None /\ c.checkpoint_frequency[1] > 0

\* lines 487-528
DetectorCmd(c, i_task, chunk_file) ==
    LET gpu_number == GpuNumber(c, i_task)
        checkpoint_frequency_string ==
            IF CheckpointOptionsRendered(c)
            THEN <<W("--checkpoint_frequency"), W(ToString(c.checkpoint_frequency[1]))>>
            ELSE <<>>
        checkpoint_path_string ==
            IF CheckpointOptionsRendered(c)
            THEN <<W("--checkpoint_path"), Quote(CheckpointFilename(chunk_file))>>
            ELSE <<>>
        use_image_queue_string == IF c.use_image_queue THEN <<W("--use_image_queue")>> ELSE <<>>
        ncores_string == IF c.ncores > 1 THEN <<W("--ncores"), W(ToString(c.ncores))>> ELSE <<>>
        quiet_string == IF c.quiet_mode THEN <<W("--quiet")>> ELSE <<>>
        confidence_threshold_string ==
            IF c.json_threshold # None THEN <<W("--threshold"), W(c.json_threshold[1])>>
            ELSE <<>>
        overwrite_handling_string == <<W("--overwrite_handling"), W(overwrite_handling)>>
    IN  cuda_string(c, gpu_number)
        \o <<W("python"), W("run_detector_batch.py"), Quote(<<model_file>>),
             Quote(chunk_file), Quote(OutputFn(chunk_file))>>
        \o checkpoint_frequency_string \o checkpoint_path_string \o use_image_queue_string
        \o ncores_string \o quiet_string \o image_size_string(c)
        \o confidence_threshold_string \o overwrite_handling_string
        \o (IF c.include_image_size THEN <<W("--include_image_size")>> ELSE <<>>)
        \o (IF c.include_image_timestamp THEN <<W("--include_image_timestamp")>> ELSE <<>>)
        \o (IF c.include_exif_data THEN <<W("--include_exif_data")>> ELSE <<>>)
        \o (IF c.detector_options # None
            THEN <<W("--detector_options"), Quote(<<c.detector_options[1]>>)>> ELSE <<>>)

\* lines 402, 462, 487: the branch taken for the inference backend
Cmd(c, i_task, chunk_file) ==
    IF c.use_yolo_inference_scripts THEN YoloCmd(c, i_task, chunk_file)
    ELSE IF c.use_tiled_inference THEN TiledCmd(c, i_task, chunk_file)
    ELSE DetectorCmd(c, i_task, chunk_file)

\* lines 530-531 without the task number in the name
CmdFileOfGpu(c, i_task) ==
    PathJoin(filename_base[1],
        <<"run_chunk_", "gpu_",
          ZFill(ToString(GpuNumber(c, i_task)), 2), script_extension(c.os_name_nt)>>)

\* lines 530-531
CmdFile(c, i_task) ==
    PathJoin(filename_base[1],
        <<"run_chunk_", ZFill(ToString(i_task), 3), "_gpu_",
          ZFill(ToString(GpuNumber(c, i_task)), 2), script_extension(c.os_name_nt)>>)

\* lines 553-555
ResumeCmdFile(c, i_task) ==
    PathJoin(filename_base[1],
        <<"resume_chunk_", ZFill(ToString(i_task), 3), "_gpu_",
          ZFill(ToString(GpuNumber(c, i_task)), 2), script_extension(c.os_name_nt)>>)

\* line 548: the condition under which the resume script is generated
ResumeGenerated(c) == c.checkpoint_frequency # None

\* lines 550-551
ResumeCmd(cmd, chunk_file) ==
    cmd \o <<W("--resume_from_checkpoint"), Quote(CheckpointFilename(chunk_file))>>

\* lines 533-536 and 557-560: header (when non-empty) and an empty line, then
\* the command
ScriptText(c, cmd) ==
    (IF Len(script_header(c.os_name_nt)) > 0 THEN script_header(c.os_name_nt) \o << <<>> >>
     ELSE <<>>) \o <<cmd>>

\* the task dict after its loop iteration (lines 389, 541-542, 565-566)
TaskAfter(c, i_task, task) ==
    LET chunk_file == task.input_file
        cmd == Cmd(c, i_task, chunk_file)
        main == [output_file |-> OutputFn(chunk_file),
                 command |-> cmd,
                 command_file |-> CmdFile(c, i_task)]
        resume == [resume_command |-> ResumeCmd(cmd, chunk_file),
                   resume_command_file |-> ResumeCmdFile(c, i_task)]
    IN  IF ResumeGenerated(c) THEN Overwrite(Overwrite(task, main), resume)
        ELSE Overwrite(task, main)

\* the map of the previous run of the cell, kept instead of line 379
StaleGpuToScripts == gpu_to_scripts

\* line 379
FreshGpuToScripts == <<>>

RECURSIVE GpuToScripts(_, _, _)
\* line 546 over the first n tasks: append each command file to its GPU's list
GpuToScripts(c, start, n) ==
    IF n = 0 THEN start
    ELSE LET prev == GpuToScripts(c, start, n - 1)
             gpu_number == GpuNumber(c, n - 1)
             sofar == IF gpu_number \in DOMAIN prev THEN prev[gpu_number] ELSE <<>>
         IN  Overwrite(prev, [g \in {gpu_number} |-> Append(sofar, CmdFile(c, n - 1))])

\* lines 575-576
GpuScriptFile(c, gpu_number) ==
    PathJoin(filename_base[1],
        <<"run_all_for_gpu_", ZFill(ToString(gpu_number), 2), script_extension(c.os_name_nt)>>)

\* line 587
CompletionMarker(gpu_number) ==
    <<W("echo"), <<"\"Finished all commands for GPU ", ToString(gpu_number), "\"">> >>

\* lines 577-586 without line 587
GpuScriptTextNoMarker(c, gpu_number, script_names) ==
    (IF Len(script_header(c.os_name_nt)) > 0 THEN script_header(c.os_name_nt) \o << <<>> >>
     ELSE <<>>)
    \o [k \in DOMAIN script_names |->
           IF c.os_name_nt THEN <<W("call"), script_names[k]>> ELSE <<script_names[k]>>]

\* lines 577-587
GpuScriptText(c, gpu_number, script_names) ==
    (IF Len(script_header(c.os_name_nt)) > 0 THEN script_header(c.os_name_nt) \o << <<>> >>
     ELSE <<>>)
    \o [k \in DOMAIN script_names |->
           IF c.os_name_nt THEN <<W("call"), script_names[k]>> ELSE <<script_names[k]>>]
    \o <<CompletionMarker(gpu_number)>>

GenerateCommands ==
    /\ pc \in {"generate", "generated"}
    /\ LET n == Len(task_info)
           tasks == [i \in 1..n |-> TaskAfter(cfg, i - 1, task_info[i])]
           g2s == GpuToScripts(cfg, FreshGpuToScripts, n)
           chunk_scripts == [p \in {tasks[i].command_file : i \in 1..n} |->
               ScriptText(cfg, tasks[LastOf({i \in 1..n : tasks[i].command_file = p})].command)]
           resumable == IF ResumeGenerated(cfg) THEN 1..n ELSE {}
           resume_scripts == [p \in {tasks[i].resume_command_file : i \in resumable} |->
               ScriptText(cfg,
                   tasks[LastOf({i \in resumable : tasks[i].resume_command_file = p})].resume_command)]
           gpu_scripts == [p \in {GpuScriptFile(cfg, g) : g \in DOMAIN g2s} |->
               LET g == CHOOSE g \in DOMAIN g2s : GpuScriptFile(cfg, g) = p
               IN  GpuScriptText(cfg, g, g2s[g])]
       IN  /\ task_info' = tasks
           /\ gpu_to_scripts' = g2s
           /\ scripts' = Overwrite(Overwrite(Overwrite(scripts, chunk_scripts), resume_scripts),
                                   gpu_scripts)
           /\ executable' = executable \cup DOMAIN chunk_scripts \cup DOMAIN resume_scripts
                                \cup DOMAIN gpu_scripts
           \* line 426 overwrites the setting itself on every YOLO iteration
           /\ cfg' = IF n > 0 /\ cfg.use_yolo_inference_scripts
                        /\ Truthy(cfg.write_yolo_debug_output)
                     THEN [cfg EXCEPT !.write_yolo_debug_output = PyStr("--write_yolo_debug_output")]
                     ELSE cfg
    \* "regenerated": the cell was run again on the state its first run left
    /\ pc' = IF pc = "generate" THEN "generated" ELSE "regenerated"
    /\ UNCHANGED <<disk, runs, base_task_name, base_output_folder_name, filename_base, dirs,
                   chunk_files, all_images, folder_chunks, manifests>>
    /\ UNCHANGED laterVars

(***************************************************************************)
(* The operator between runs                                               *)
(***************************************************************************)
\* edits n_jobs (line 244) and force_enumeration (line 126) once the file
\* lists are written and goes back to the "Enumerate files" cell of the same
\* session
EditConstants ==
    /\ pc = "generate"
    /\ runs < MaxRuns
    /\ \E nj \in 1..MaxJobs, fe \in BOOLEAN :
           cfg' = [cfg EXCEPT !.n_jobs = nj, !.force_enumeration = fe]
    /\ runs' = runs + 1
    /\ pc' = "enumerate"
    /\ UNCHANGED <<disk, base_task_name, base_output_folder_name, filename_base, dirs,
                   chunk_files, all_images, folder_chunks, task_info, manifests,
                   gpu_to_scripts, scripts, executable>>
    /\ UNCHANGED laterVars

\* between runs a manifest file gets a JSON value that is not a list (it is
\* edited by hand or replaced by the output of another tool)
ManifestDamaged ==
    /\ pc = "generate"
    /\ runs < MaxRuns
    /\ \E p \in DOMAIN manifests :
           /\ IsList(manifests[p])
           /\ manifests' = [manifests EXCEPT ![p] = NotAList]
    /\ UNCHANGED <<cfg, pc, disk, runs, base_task_name, base_output_folder_name, filename_base,
                   dirs, chunk_files, all_images, folder_chunks, task_info,
                   gpu_to_scripts, scripts, executable>>
    /\ UNCHANGED laterVars

\* images are added to or removed from input_path between runs
ChangeDisk ==
    /\ pc = "generate"
    /\ runs < MaxRuns
    /\ \E d \in SUBSET Images : d # disk /\ disk' = d
    /\ UNCHANGED <<cfg, pc, runs, base_task_name, base_output_folder_name, filename_base, dirs,
                   chunk_files, all_images, folder_chunks, task_info, manifests,
                   gpu_to_scripts, scripts, executable>>
    /\ UNCHANGED laterVars

(***************************************************************************)
(* The per-chunk result files the detector writes                          *)
(***************************************************************************)
\* the 'info' and 'detection_categories' of a result file written by the
\* detector of model_file
DetectorInfo == [format_version |-> "1.3", detector |-> "md_v5a.0.0.pt"]

DetectorCategories == <<"animal", "person", "vehicle">>

\* the result file of a run that processed every image of its list and
\* reports each under the path the list gave
NominalResults(c, images) ==
    [info |-> DetectorInfo,
     detection_categories |-> DetectorCategories,
     images |-> [k \in DOMAIN images |-> [file |-> ImagePath(c, images[k])]]]

\* the elements of a list
Range(s) == {s[k] : k \in DOMAIN s}

\* the path of an image relative to input_path, with the separators of the
\* platform, as a backend that reports relative paths writes it
RelativeName(c, i) ==
    LET nt == c.os_name_nt
        inside == (i = ForeignImage) <=> (c.input_path = OtherRoot(nt))
        name == NameOf(IF i = ForeignImage THEN 1 ELSE i)
        up == <<".", ".", "/", "d">> \o (IF i = ForeignImage THEN <<"x">> ELSE <<>>) \o <<"/">>
        rel == IF inside THEN name ELSE up \o name
    IN  [k \in DOMAIN rel |-> IF nt /\ rel[k] = "/" THEN "\\" ELSE rel[k]]

\* a path outside every image folder
OutsidePath == <<"/", "x">>

\* the paths a record a result file has in excess can name
ExtraFiles(c) == {ImagePath(c, i) : i \in Images \cup {ForeignImage}} \cup {OutsidePath}

\* one way in which the results of a job differ from the nominal ones: a
\* record left out, reported relative, reported as failed or with a null
\* failure, a record in excess, a different format version, category
\* mapping or detector name, an output file never written
Defect(kind, i_task, k, file) == [kind |-> kind, task |-> i_task, k |-> k, file |-> file]

Defects(c) ==
    UNION { {Defect(kind, i, k, <<>>) :
                kind \in {"omitted", "relative", "failed", "null_failure"},
                k \in DOMAIN manifests[task_info[i].input_file]}
            \cup {Defect("extra", i, 0, f) : f \in ExtraFiles(c)}
            \cup {Defect(kind, i, 0, <<>>) :
                    kind \in {"format_version", "detection_categories", "detector", "missing"}}
          : i \in DOMAIN task_info }

RECURSIVE UpTo(_, _)
\* the subsets of S with at most n elements
UpTo(S, n) ==
    IF n = 0 THEN {{}}
    ELSE LET prev == UpTo(S, n - 1) IN prev \cup {q \cup {x} : q \in prev, x \in S}

\* the result file of task i under a set of defects
ResultsWith(c, i, defects) ==
    LET images == manifests[task_info[i].input_file]
        has(kind, k) == Defect(kind, i, k, <<>>) \in defects
        file(k) == IF has("relative", k) THEN RelativeName(c, images[k])
                   ELSE ImagePath(c, images[k])
        record(k) == IF has("null_failure", k) THEN [file |-> file(k), failure |-> None]
                     ELSE IF has("failed", k)
                     THEN [file |-> file(k), failure |-> Some("Failure image access")]
                     ELSE [file |-> file(k)]
        kept(k) == ~has("omitted", k)
        reported == SelectSeq([k \in DOMAIN images |-> k], kept)
        extra == {d.file : d \in {e \in defects : e.kind = "extra" /\ e.task = i}}
        extras == CHOOSE order \in Orders(extra) : TRUE
    IN  [info |-> [format_version |-> IF has("format_version", 0) THEN "1.2"
                                      ELSE DetectorInfo.format_version,
                   detector |-> IF has("detector", 0) THEN "md_v5b.0.0.pt"
                                ELSE DetectorInfo.detector],
         detection_categories |-> IF has("detection_categories", 0) THEN <<"animal">>
                                  ELSE DetectorCategories,
         images |-> [k \in DOMAIN reported |-> record(reported[k])]
                    \o [k \in DOMAIN extras |-> [file |-> extras[k]]]]

\* every process the operator started has ended, in whatever way: the job
\* folder holds the result files they left
DetectorsFinish ==
    /\ pc = "generated"
    /\ \E defects \in UpTo(Defects(cfg), MaxDefects) :
           outputs' = [f \in {task_info[i].output_file :
                                 i \in {j \in DOMAIN task_info :
                                           Defect("missing", j, 0, <<>>) \notin defects}} |->
                          ResultsWith(cfg,
                              LastOf({i \in DOMAIN task_info : task_info[i].output_file = f}),
                              defects)]
    /\ pc' = "results"
    /\ UNCHANGED <<cfg, disk, runs, base_task_name, base_output_folder_name, filename_base,
                   dirs, chunk_files, all_images, folder_chunks, task_info, manifests,
                   gpu_to_scripts, scripts, executable, procs, missing_output_files,
                   n_total_failures, combined_results, combined_api_output, raised, printed, notebookVars, path_case>>

(***************************************************************************)
(* The operator runs the per-GPU scripts in shells outside the notebook    *)
(***************************************************************************)
\* line 160 / 169: command_suffix, the line meant to follow each command
command_suffix(nt) ==
    IF nt THEN <<W("if"), W("%errorlevel%"), W("neq"), W("0"), W("exit"), W("/b"),
                 W("%errorlevel%")>>
    ELSE <<>>

\* the script a line of a per-GPU script runs (lines 581-586), None for
\* any other line
CalledScript(nt, line) ==
    IF nt THEN (IF Len(line) = 2 /\ line[1] = W("call") THEN Some(line[2]) ELSE None)
    ELSE (IF Len(line) = 1 /\ line[1] \in DOMAIN scripts THEN Some(line[1]) ELSE None)

\* the task whose command a chunk script holds (lines 530-542)
TaskOfScript(path) == task_info[LastOf({i \in DOMAIN task_info : task_info[i].command_file = path})]

\* a shell starts the per-GPU script of one GPU
LaunchGpuScript(g) ==
    /\ pc = "generated"
    /\ g \in DOMAIN gpu_to_scripts
    /\ g \notin DOMAIN procs
    /\ GpuScriptFile(cfg, g) \in executable
    /\ procs' = Overwrite(procs, [h \in {g} |->
                     [line |-> 1, errexit |-> FALSE, status |-> 0, ran |-> <<>>,
                      echoed |-> FALSE, state |-> "running"]])
    /\ UNCHANGED <<cfg, pc, disk, runs, base_task_name, base_output_folder_name, filename_base,
                   dirs, chunk_files, all_images, folder_chunks, task_info, manifests,
                   gpu_to_scripts, scripts, executable, outputs, missing_output_files,
                   n_total_failures, combined_results, combined_api_output, raised, printed, notebookVars, path_case>>

\* the shell of GPU g runs the next line of its script: 'set -e' (line 157)
\* makes bash exit on the first command that fails; a batch file goes on to
\* its next line whatever 'call' returned, and exits early only on a line
\* that tests %errorlevel% (line 169).  A chunk script ends with the status of
\* its command; a run that succeeds leaves its result file.
RunGpuScriptLine(g) ==
    /\ g \in DOMAIN procs
    /\ procs[g].state = "running"
    /\ LET p == procs[g]
           nt == cfg.os_name_nt
           text == scripts[GpuScriptFile(cfg, g)]
           line == text[p.line]
           called == CalledScript(nt, line)
           step(q) == [q EXCEPT !.line = p.line + 1,
                                !.state = IF p.line = Len(text) THEN "exited" ELSE q.state]
       IN  IF called # None
           THEN \E code \in {0, 1} :
                  /\ procs' = [procs EXCEPT ![g] =
                         IF code # 0 /\ p.errexit
                         THEN [p EXCEPT !.status = code, !.state = "exited",
                                        !.ran = Append(p.ran, [script |-> called[1], code |-> code])]
                         ELSE step([p EXCEPT !.status = code,
                                        !.ran = Append(p.ran, [script |-> called[1], code |-> code])])]
                  /\ outputs' =
                         IF code = 0
                         THEN LET task == TaskOfScript(called[1])
                              IN  Overwrite(outputs, [f \in {task.output_file} |->
                                      NominalResults(cfg, manifests[task.input_file])])
                         ELSE outputs
           ELSE /\ procs' = [procs EXCEPT ![g] =
                       IF line = << <<"set">>, <<"-e">> >> THEN step([p EXCEPT !.errexit = TRUE])
                       ELSE IF Len(line) > 0 /\ line[1] = W("echo")
                       THEN step([p EXCEPT !.echoed = TRUE, !.status = 0])
                       ELSE IF nt /\ line = command_suffix(nt) /\ p.status # 0
                       THEN [p EXCEPT !.state = "exited"]
                       ELSE step(p)]
                /\ UNCHANGED outputs
    /\ UNCHANGED <<cfg, pc, disk, runs, base_task_name, base_output_folder_name, filename_base,
                   dirs, chunk_files, all_images, folder_chunks, task_info, manifests,
                   gpu_to_scripts, scripts, executable, missing_output_files,
                   n_total_failures, combined_results, combined_api_output, raised, printed, notebookVars, path_case>>

(***************************************************************************)
(* #%% Run the tasks (lines 598-673)                                       *)
(***************************************************************************)
\* lines 643-646
cp_freq_arg(c) ==
    IF c.checkpoint_frequency # None /\ c.checkpoint_frequency[1] > 0
    THEN c.checkpoint_frequency[1]
    ELSE -1

\* line 668 true for every setting
CheckpointCleanupAlways(c) == TRUE

\* line 668
CheckpointCleanup(c) == c.checkpoint_frequency # None /\ c.checkpoint_frequency[1] > 0

\* the ways a call of load_and_run_detector_batch (lines 649-658) can end: it
\* returns or raises, and with a positive checkpoint frequency it may have
\* written the checkpoint file; with -1 it writes none
load_and_run_detector_batch(checkpoint_path, checkpoint_frequency, files) ==
    { [returned |-> ok, checkpoints |-> after] :
        ok \in BOOLEAN,
        after \in {files} \cup (IF checkpoint_frequency > 0
                                THEN {files \cup {checkpoint_path}} ELSE {}) }

\* the task the cell is at
CurrentTask == task_info[inproc[1].i_task + 1]

\* an earlier run of the chunk script of a task was interrupted and left its
\* checkpoint file in the job folder
CheckpointLeftBehind ==
    /\ pc = "generated"
    /\ \E i \in DOMAIN task_info :
           /\ CheckpointFilename(task_info[i].input_file) \notin checkpoints
           /\ checkpoints' = checkpoints \cup {CheckpointFilename(task_info[i].input_file)}
    /\ UNCHANGED <<cfg, pc, disk, runs, base_task_name, base_output_folder_name, filename_base,
                   dirs, chunk_files, all_images, folder_chunks, task_info, manifests,
                   gpu_to_scripts, scripts, executable, procs, outputs, missing_output_files,
                   n_total_failures, combined_results, combined_api_output, raised, printed,
                   inproc, events, path_case>>

\* the operator sets run_tasks_in_notebook (line 622) and runs the cell:
\* lines 624-627 and the first iteration of line 630
RunTasksInNotebook ==
    /\ pc = "generated"
    /\ procs = <<>>
    /\ IF cfg.use_yolo_inference_scripts
       THEN /\ pc' = "halted"
            /\ raised' = Some("you can't run the model interactively (yet)")
            /\ UNCHANGED inproc
       ELSE /\ pc' = IF Len(task_info) = 0 THEN "tasks_done" ELSE "tasks"
            /\ inproc' = IF Len(task_info) = 0 THEN None
                         ELSE Some([i_task |-> 0, at |-> "inference"])
            /\ UNCHANGED raised
    /\ UNCHANGED <<cfg, disk, runs, base_task_name, base_output_folder_name, filename_base,
                   dirs, chunk_files, all_images, folder_chunks, task_info, manifests,
                   gpu_to_scripts, scripts, executable, procs, outputs, missing_output_files,
                   n_total_failures, combined_results, combined_api_output, printed,
                   checkpoints, events, path_case>>

\* lines 632-661: the inference of the current task
RunInference ==
    /\ pc = "tasks"
    /\ inproc[1].at = "inference"
    /\ \E outcome \in load_and_run_detector_batch(
                          CheckpointFilename(CurrentTask.input_file), cp_freq_arg(cfg),
                          checkpoints) :
           /\ checkpoints' = outcome.checkpoints
           /\ IF outcome.returned
              THEN /\ inproc' = Some([inproc[1] EXCEPT !.at = "write"])
                   /\ UNCHANGED <<pc, raised>>
              ELSE /\ pc' = "halted"
                   /\ raised' = Some("load_and_run_detector_batch")
                   /\ UNCHANGED inproc
    /\ events' = Append(events, [kind |-> "inference", task |-> inproc[1].i_task])
    /\ UNCHANGED <<cfg, disk, runs, base_task_name, base_output_folder_name, filename_base,
                   dirs, chunk_files, all_images, folder_chunks, task_info, manifests,
                   gpu_to_scripts, scripts, executable, procs, outputs, missing_output_files,
                   n_total_failures, combined_results, combined_api_output, printed,
                   path_case>>

\* line 664: write_results_to_file
WriteResults ==
    /\ pc = "tasks"
    /\ inproc[1].at = "write"
    /\ outputs' = Overwrite(outputs, [f \in {CurrentTask.output_file} |->
                      NominalResults(cfg, manifests[CurrentTask.input_file])])
    /\ inproc' = Some([inproc[1] EXCEPT !.at = "cleanup"])
    /\ events' = Append(events, [kind |-> "written", task |-> inproc[1].i_task])
    /\ UNCHANGED <<cfg, pc, disk, runs, base_task_name, base_output_folder_name, filename_base,
                   dirs, chunk_files, all_images, folder_chunks, task_info, manifests,
                   gpu_to_scripts, scripts, executable, procs, missing_output_files,
                   n_total_failures, combined_results, combined_api_output, raised, printed,
                   checkpoints, path_case>>

\* lines 666-669 and the step of the loop of line 630 to the next task
RemoveCheckpoint ==
    /\ pc = "tasks"
    /\ inproc[1].at = "cleanup"
    /\ LET checkpoint_filename == CheckpointFilename(CurrentTask.input_file)
           removes == CheckpointCleanup(cfg) /\ checkpoint_filename \in checkpoints
       IN  /\ checkpoints' = IF removes THEN checkpoints \ {checkpoint_filename}
                             ELSE checkpoints
           /\ events' = IF removes
                        THEN Append(events, [kind |-> "deleted", task |-> inproc[1].i_task])
                        ELSE events
    /\ IF inproc[1].i_task + 1 < Len(task_info)
       THEN /\ inproc' = Some([i_task |-> inproc[1].i_task + 1, at |-> "inference"])
            /\ UNCHANGED pc
       ELSE /\ inproc' = None
            /\ pc' = "tasks_done"
    /\ UNCHANGED <<cfg, disk, runs, base_task_name, base_output_folder_name, filename_base,
                   dirs, chunk_files, all_images, folder_chunks, task_info, manifests,
                   gpu_to_scripts, scripts, executable, procs, outputs, missing_output_files,
                   n_total_failures, combined_results, combined_api_output, raised, printed,
                   path_case>>

(***************************************************************************)
(* #%% Load results, look for failed or missing images in each task        *)
(* ##%% Merge results files and make filenames relative                    *)
(***************************************************************************)
\* json.load of a chunk manifest: the paths it lists
TaskImages(c, task) ==
    [k \in DOMAIN manifests[task.input_file] |-> ImagePath(c, manifests[task.input_file][k])]

\* lines 720-722: a path that is not absolute is joined to input_path
Normalized(c, im) ==
    IF ~IsAbs(c.os_name_nt, im.file)
    THEN [im EXCEPT !.file = ConvertSlashes(os_path_join(c.os_name_nt, c.input_path, im.file))]
    ELSE im

\* lines 723-729 without the assert of line 724
RecordErrorNoManifestCheck(c, task_images_set, im) ==
    IF ~StartsWith(im.file, c.input_path) THEN Some("assert im['file'].startswith(input_path)")
    ELSE IF "failure" \in DOMAIN im /\ im.failure = None
    THEN Some("assert im['failure'] is not None")
    ELSE None

\* lines 723-729: the assert a normalized record fails, None when it passes
RecordError(c, task_images_set, im) ==
    IF ~StartsWith(im.file, c.input_path) THEN Some("assert im['file'].startswith(input_path)")
    ELSE IF im.file \notin task_images_set THEN Some("assert im['file'] in task_images_set")
    ELSE IF "failure" \in DOMAIN im /\ im.failure = None
    THEN Some("assert im['failure'] is not None")
    ELSE None

\* lines 733-735 never failing
AllImagesReportedUnchecked(task_images_set, ims) == TRUE

\* lines 733-735: every path of the manifest is a key of filename_to_results
AllImagesReported(task_images_set, ims) ==
    task_images_set \subseteq {ims[k].file : k \in DOMAIN ims}

\* lines 712-735 on the normalized records ims of one task: the task dict as
\* the iteration leaves it, the failures it adds to the total and the assert
\* that stopped it
LoadedTask(c, task, task_images_set, task_results, ims, bad) ==
    IF bad # {}
    THEN [task |-> task, n_failures |-> 0,
          error |-> RecordError(c, task_images_set, ims[CHOOSE k \in bad : \A j \in bad : k <= j])]
    ELSE [task |-> Overwrite(task,
                      [n_failures |-> Cardinality({k \in DOMAIN ims : "failure" \in DOMAIN ims[k]}),
                       results |-> [task_results EXCEPT !.images = ims]]),
          n_failures |-> IF AllImagesReported(task_images_set, ims)
                         THEN Cardinality({k \in DOMAIN ims : "failure" \in DOMAIN ims[k]})
                         ELSE 0,
          error |-> IF AllImagesReported(task_images_set, ims) THEN None
                    ELSE Some("File not found in results")]

\* lines 715-722 over the records of a result file
NormalizedRecords(c, task_results) ==
    [k \in DOMAIN task_results.images |-> Normalized(c, task_results.images[k])]

\* the records that fail an assert of lines 723-729
BadRecords(c, task_images_set, ims) ==
    {k \in DOMAIN ims : RecordError(c, task_images_set, ims[k]) # None}

\* lines 702-737 for one task
LoadTaskFrom(c, task, task_images_set, task_results, ims) ==
    LoadedTask(c, task, task_images_set, task_results, ims, BadRecords(c, task_images_set, ims))

\* lines 702-737 for one task, files being the result files on disk
LoadTask(c, files, task) ==
    LoadTaskFrom(c, task, Range(TaskImages(c, task)), files[task.output_file],
                 NormalizedRecords(c, files[task.output_file]))

\* line 737 and the end of the loop body
TaskAdded(prev, n, t) ==
    [tasks |-> [prev.tasks EXCEPT ![n] = t.task],
     total |-> prev.total + t.n_failures,
     error |-> t.error]

\* one iteration of the loop of lines 699-737, skipped after a failed assert
NextTask(c, files, prev, n) ==
    IF prev.error # None THEN prev ELSE TaskAdded(prev, n, LoadTask(c, files, task_info[n]))

RECURSIVE LoadTasks(_, _, _)
\* the loop of lines 699-737 over the first n tasks
LoadTasks(c, files, n) ==
    IF n = 0 THEN [tasks |-> task_info, total |-> 0, error |-> None]
    ELSE NextTask(c, files, LoadTasks(c, files, n - 1), n)

\* a tolerance that lets the failures reach it
WithinToleranceInclusive(c, n_failures) == n_failures <= c.max_tolerable_failed_images

\* line 741
WithinTolerance(c, n_failures) == n_failures < c.max_tolerable_failed_images

\* line 763 alone
SameMetadataCategoriesOnly(task_results, combined) ==
    task_results.detection_categories = combined.detection_categories

\* lines 762-763: what the merge compares between a task and the first task
SameMetadata(task_results, combined) ==
    /\ task_results.info.format_version = combined.info.format_version
    /\ task_results.detection_categories = combined.detection_categories

\* the records whose path was seen before them (line 768)
SeenBeforeNone(files, images_processed) == {}

SeenBefore(files, images_processed) ==
    {k \in DOMAIN files :
        \/ files[k] \in images_processed
        \/ \E j \in 1..(k - 1) : files[j] = files[k]}

\* lines 766-771 with the records assigned instead of appended
ImagesMergedReplacing(prev, task_results, files, seen) ==
    IF seen # {}
    THEN [prev EXCEPT !.error = Some("assert im['file'] not in images_processed")]
    ELSE [prev EXCEPT
             !.combined.images = task_results.images,
             !.images_processed = @ \cup Range(files)]

\* lines 766-771 for one task
ImagesMerged(prev, task_results, files, seen) ==
    IF seen # {}
    THEN [prev EXCEPT
             !.images_processed = @ \cup
                 {files[k] : k \in {j \in DOMAIN files : \A q \in seen : j < q}},
             !.error = Some("assert im['file'] not in images_processed")]
    ELSE [prev EXCEPT
             !.combined.images = @ \o task_results.images,
             !.images_processed = @ \cup Range(files)]

\* lines 755-771 for task n, skipped after a failed assert
MergeTask(prev, task_results, n) ==
    IF prev.error # None THEN prev
    ELSE IF n = 1
    THEN ImagesMerged([prev EXCEPT !.combined = Overwrite(@,
                           [info |-> task_results.info,
                            detection_categories |-> task_results.detection_categories])],
                      task_results,
                      [k \in DOMAIN task_results.images |-> task_results.images[k].file],
                      SeenBefore([k \in DOMAIN task_results.images |-> task_results.images[k].file],
                                 prev.images_processed))
    ELSE IF ~SameMetadata(task_results, prev.combined)
    THEN [prev EXCEPT !.error = Some("assert on format_version / detection_categories")]
    ELSE ImagesMerged(prev, task_results,
                      [k \in DOMAIN task_results.images |-> task_results.images[k].file],
                      SeenBefore([k \in DOMAIN task_results.images |-> task_results.images[k].file],
                                 prev.images_processed))

RECURSIVE MergeTasks(_, _)
\* the loop of lines 753-772 over the first n tasks
MergeTasks(tasks, n) ==
    IF n = 0 THEN [combined |-> [images |-> <<>>], images_processed |-> {}, error |-> None]
    ELSE MergeTask(MergeTasks(tasks, n - 1), tasks[n].results, n)

\* lines 784-785: the assert a merged path fails, None when it passes
RelativizeError(c, file) ==
    IF "\\" \in Range(file) THEN Some("assert '\\' not in im['file']")
    ELSE IF ~StartsWith(file, c.input_path)
    THEN Some("assert im['file'].startswith(input_path) (merge)")
    ELSE None

\* lines 786-789 with the separator kept wherever input_path is removed
RelativePathKeepingSeparator(c, file) == ReplaceFirst(file, c.input_path)

\* lines 786-789
RelativePath(c, file) ==
    IF EndsWith(c.input_path, ":") THEN ReplaceFirst(file, c.input_path)
    ELSE ReplaceFirst(file, c.input_path \o <<"/">>)

\* the first record that fails an assert of lines 784-785, one past the
\* end when none does
FirstUnrelativizable(c, ims) ==
    IF \A k \in DOMAIN ims : RelativizeError(c, ims[k].file) = None THEN Len(ims) + 1
    ELSE CHOOSE k \in DOMAIN ims :
             /\ RelativizeError(c, ims[k].file) # None
             /\ \A j \in 1..(k - 1) : RelativizeError(c, ims[j].file) = None

\* the loop of lines 783-789 stopped at record stop
RelativizedUpTo(c, ims, stop) ==
    [images |-> [k \in DOMAIN ims |->
                    IF k < stop THEN [ims[k] EXCEPT !.file = RelativePath(c, @)] ELSE ims[k]],
     error |-> IF stop > Len(ims) THEN None ELSE RelativizeError(c, ims[stop].file)]

\* the loop of lines 783-789 over a list of records: the records as the loop
\* leaves them and the assert that stopped it
Relativized(c, ims) == RelativizedUpTo(c, ims, FirstUnrelativizable(c, ims))

\* the number of records of the tasks before task n
RecordsBefore(tasks, n) == Len(Flatten([k \in 1..(n - 1) |-> tasks[k].results.images]))

\* the records of the combined list are the dicts of the task results, so
\* the rewrite of lines 786-789 shows in task['results'] as well
TasksSharing(tasks, images) ==
    [n \in DOMAIN tasks |->
        [tasks[n] EXCEPT !.results.images =
            [k \in DOMAIN @ |-> images[RecordsBefore(tasks, n) + k]]]]

\* the variables the cell assigns, before its first statement
CellStart ==
    [missing |-> missing_output_files, tasks |-> task_info, total |-> n_total_failures,
     combined |-> combined_results, written |-> combined_api_output, error |-> None,
     printed |-> <<>>]

\* lines 680-688 stopping at the first missing file
MissingOutputFilesFirstOnly ==
    LET all == SelectSeq([k \in DOMAIN task_info |-> task_info[k].output_file],
                         LAMBDA f : f \notin DOMAIN outputs)
    IN  SubSeq(all, 1, Min(1, Len(all)))

\* lines 680-688
MissingOutputFiles ==
    SelectSeq([k \in DOMAIN task_info |-> task_info[k].output_file],
              LAMBDA f : f \notin DOMAIN outputs)

\* lines 689-693
CheckOutputFiles(r, missing) ==
    [r EXCEPT !.missing = missing,
              !.error = IF Len(missing) > 0 THEN Some("Missing output files") ELSE None]

\* lines 696-743
Loaded(c, r, loaded) ==
    [r EXCEPT !.tasks = loaded.tasks,
              !.total = loaded.total,
              !.error = IF loaded.error # None THEN loaded.error
                        ELSE IF ~WithinTolerance(c, loaded.total)
                        THEN Some("assert n_total_failures < max_tolerable_failed_images")
                        ELSE None]

Load(c, files, r) ==
    IF r.error # None THEN r ELSE Loaded(c, r, LoadTasks(c, files, Len(task_info)))

\* lines 751-780
Merged(r, merged) ==
    [r EXCEPT !.combined = Some(merged.combined),
              !.error = IF merged.error # None THEN merged.error
                        ELSE IF Len(merged.combined.images) # Len(all_images)
                        THEN Some("Expected {} images in combined results, found {}")
                        ELSE IF Len(merged.combined.images)
                                  # Cardinality({merged.combined.images[k].file :
                                                    k \in DOMAIN merged.combined.images})
                        THEN Some("assert on uniqueness")
                        ELSE None]

\* lines 751-771 without any assert
MergeUnchecked(r) ==
    IF r.error # None THEN r
    ELSE [r EXCEPT !.combined =
             Some([info |-> r.tasks[1].results.info,
                   detection_categories |-> r.tasks[1].results.detection_categories,
                   images |-> Flatten([k \in DOMAIN r.tasks |-> r.tasks[k].results.images])])]

Merge(r) == IF r.error # None THEN r ELSE Merged(r, MergeTasks(r.tasks, Len(r.tasks)))

\* lines 783-789
MadeRelative(r, rel) ==
    [r EXCEPT !.combined = Some([r.combined[1] EXCEPT !.images = rel.images]),
              !.tasks = TasksSharing(r.tasks, rel.images),
              !.error = rel.error]

MakeRelative(c, r) ==
    IF r.error # None THEN r ELSE MadeRelative(r, Relativized(c, r.combined[1].images))

\* lines 791-792 written on every path through the cell
WriteCombinedAlways(r) == [r EXCEPT !.written = r.combined]

\* lines 791-792
WriteCombined(r) == IF r.error # None THEN r ELSE [r EXCEPT !.written = r.combined]

\* the task on which the loop of lines 699-737 stopped: the last one that
\* has its results attached (line 731)
LastLoaded(tasks) ==
    tasks[CHOOSE k \in DOMAIN tasks :
              /\ "results" \in DOMAIN tasks[k]
              /\ \A j \in DOMAIN tasks : "results" \in DOMAIN tasks[j] => j <= k]

\* lines 733-735: the path on which the loop over task_images stops, the
\* first of the manifest that is not a key of filename_to_results
FirstUnreported(c, task) ==
    LET task_images == TaskImages(c, task)
        keys == {task.results.images[j].file : j \in DOMAIN task.results.images}
        k == CHOOSE k \in DOMAIN task_images :
                 /\ task_images[k] \notin keys
                 /\ \A j \in 1..(k - 1) : task_images[j] \in keys
    IN  task_images[k]

\* the paths the output of the raised error names: the printed list of
\* lines 690-692, the path in the message of lines 734-735; the bare asserts
\* of lines 723-727, 756-759 and 780 name none, and the messages of lines
\* 741-743 and 775-777 hold counts only
ErrorItems(c, r) ==
    IF r.error = Some("Missing output files") THEN r.missing
    ELSE IF r.error = Some("File not found in results")
    THEN <<FirstUnreported(c, LastLoaded(r.tasks))>>
    ELSE <<>>

Report(c, r) == [r EXCEPT !.printed = ErrorItems(c, r)]

\* the whole cell, in the order of its statements, files being the result
\* files it opens
ResultsCellOn(c, files) ==
    Report(c, WriteCombined(MakeRelative(c,
        Merge(Load(c, files, CheckOutputFiles(CellStart, MissingOutputFiles))))))

ResultsCell(c) == ResultsCellOn(c, outputs)

\* the variables as the cell leaves them
ResultsCellLeaves(r) ==
    /\ missing_output_files' = r.missing
    /\ task_info' = r.tasks
    /\ n_total_failures' = r.total
    /\ combined_results' = r.combined
    /\ combined_api_output' = r.written
    /\ raised' = r.error
    /\ printed' = r.printed
    /\ pc' = IF r.error = None THEN "reconciled" ELSE "halted"

LoadAndMergeResults ==
    /\ pc = "results"
    /\ ResultsCellLeaves(ResultsCell(cfg))
    /\ UNCHANGED <<cfg, disk, runs, base_task_name, base_output_folder_name, filename_base,
                   dirs, chunk_files, all_images, folder_chunks, manifests, gpu_to_scripts,
                   scripts, executable, procs, outputs, notebookVars, path_case>>

\* the operator points input_path (line 219) at the other image folder and
\* runs the notebook again from its first cell, in the same session
EditInputPath ==
    /\ pc = "generate"
    /\ runs = 0
    /\ \E root \in {HomeRoot(cfg.os_name_nt), OtherRoot(cfg.os_name_nt)} :
           /\ cfg.input_path \in {HomeRoot(cfg.os_name_nt), OtherRoot(cfg.os_name_nt)} \ {root}
           /\ cfg' = [cfg EXCEPT !.input_path = root]
           /\ disk' = ImagesUnder(cfg')
    /\ runs' = runs + 1
    /\ pc' = "constants"
    /\ UNCHANGED <<base_task_name, base_output_folder_name, filename_base, dirs,
                   chunk_files, all_images, folder_chunks, task_info, manifests,
                   gpu_to_scripts, scripts, executable, laterVars>>

(***************************************************************************)
(* The path rewrites of the results cell on one image path                 *)
(***************************************************************************)
\* the paths an image can have inside input_path: names of 'a' and 'd'
\* separated by single '/'
ImageNames ==
    UNION { {name \in [1..n -> {"a", "d", "/"}] :
                /\ name[1] # "/" /\ name[n] # "/"
                /\ \A k \in 1..(n - 1) : ~(name[k] = "/" /\ name[k + 1] = "/")}
          : n \in 1..MaxNameLen }

\* find_images returns the path of an image under input_path (line 331)
FindImage ==
    /\ pc = "constants"
    /\ path_case = None
    /\ \E name \in ImageNames :
           path_case' = Some([absolute |-> ConvertSlashes(
                                               os_path_join(cfg.os_name_nt, cfg.input_path, name)),
                              relative |-> None, rejoined |-> None, again |-> None])
    /\ UNCHANGED <<cfg, pc, disk, runs, base_task_name, base_output_folder_name, filename_base,
                   dirs, chunk_files, all_images, folder_chunks, task_info, manifests,
                   gpu_to_scripts, scripts, executable, procs, outputs, missing_output_files,
                   n_total_failures, combined_results, combined_api_output, raised, printed, notebookVars>>

\* lines 784-789 on the absolute path
MakePathRelative ==
    /\ path_case # None
    /\ path_case[1].relative = None
    /\ RelativizeError(cfg, path_case[1].absolute) = None
    /\ path_case' = Some([path_case[1] EXCEPT
                              !.relative = Some(RelativePath(cfg, path_case[1].absolute))])
    /\ UNCHANGED <<cfg, pc, disk, runs, base_task_name, base_output_folder_name, filename_base,
                   dirs, chunk_files, all_images, folder_chunks, task_info, manifests,
                   gpu_to_scripts, scripts, executable, procs, outputs, missing_output_files,
                   n_total_failures, combined_results, combined_api_output, raised, printed, notebookVars>>

\* lines 720-722 on the relative path
JoinRelativePath ==
    /\ path_case # None
    /\ path_case[1].relative # None
    /\ path_case[1].rejoined = None
    /\ path_case' = Some([path_case[1] EXCEPT
                              !.rejoined = Some(Normalized(cfg, [file |-> path_case[1].relative[1]]).file)])
    /\ UNCHANGED <<cfg, pc, disk, runs, base_task_name, base_output_folder_name, filename_base,
                   dirs, chunk_files, all_images, folder_chunks, task_info, manifests,
                   gpu_to_scripts, scripts, executable, procs, outputs, missing_output_files,
                   n_total_failures, combined_results, combined_api_output, raised, printed, notebookVars>>

\* lines 786-789 on the relative path
MakePathRelativeAgain ==
    /\ path_case # None
    /\ path_case[1].relative # None
    /\ path_case[1].again = None
    /\ path_case' = Some([path_case[1] EXCEPT
                              !.again = Some(RelativePath(cfg, path_case[1].relative[1]))])
    /\ UNCHANGED <<cfg, pc, disk, runs, base_task_name, base_output_folder_name, filename_base,
                   dirs, chunk_files, all_images, folder_chunks, task_info, manifests,
                   gpu_to_scripts, scripts, executable, procs, outputs, missing_output_files,
                   n_total_failures, combined_results, combined_api_output, raised, printed, notebookVars>>

(***************************************************************************)
(* Specifications                                                          *)
(***************************************************************************)
Next ==
    \/ ConstantsCell
    \/ ValidationCell
    \/ EnumerateFiles
    \/ DivideImages
    \/ WriteFileLists
    \/ GenerateCommands

Spec == Init /\ [][Next]_vars

NextPlan ==
    \/ ConstantsCell
    \/ ValidationCell
    \/ EnumerateFiles
    \/ DivideImages
    \/ WriteFileLists
    \/ EditConstants
    \/ ChangeDisk

SpecPlan == InitPlan /\ [][NextPlan]_vars

\* planning and generation with every job count, run again after a manifest
\* was damaged
InitDamaged ==
    /\ cfg \in { [DefaultConfig EXCEPT !.n_jobs = nj] : nj \in 1..MaxJobs }
    /\ disk = Images
    /\ Fresh

NextDamaged ==
    \/ ConstantsCell
    \/ ValidationCell
    \/ EnumerateFiles
    \/ DivideImages
    \/ WriteFileLists
    \/ GenerateCommands
    \/ EditConstants
    \/ ManifestDamaged

SpecDamaged == InitDamaged /\ [][NextDamaged]_vars

\* both platforms with every job and GPU count, the other settings as shipped
ExecConfigs ==
    { [DefaultConfig EXCEPT !.os_name_nt = nt, !.n_jobs = nj, !.n_gpus = ng] :
        nt \in BOOLEAN, nj \in 1..MaxJobs, ng \in 1..MaxGpus }

InitExec ==
    /\ cfg \in ExecConfigs
    /\ disk = Images
    /\ Fresh

NextExec ==
    \/ ConstantsCell
    \/ ValidationCell
    \/ EnumerateFiles
    \/ DivideImages
    \/ WriteFileLists
    \/ GenerateCommands
    \/ \E g \in 0..(MaxGpus - 1) : LaunchGpuScript(g)
    \/ \E g \in 0..(MaxGpus - 1) : RunGpuScriptLine(g)

SpecExec == InitExec /\ [][NextExec]_vars

\* the tolerances the failures of a bounded job can reach or miss
Tolerances == {0, 1, 2, DefaultConfig.max_tolerable_failed_images}

\* the shipped settings with every form of input_path, every job count and
\* every tolerance, one at a time
ReconConfigs ==
    LET base == [DefaultConfig EXCEPT !.max_tolerable_failed_images = 2]
    IN  { [base EXCEPT !.os_name_nt = form[1], !.input_path = form[2]] :
            form \in {<<FALSE, HomeRoot(FALSE)>>, <<FALSE, OtherRoot(FALSE)>>,
                      <<TRUE, HomeRoot(TRUE)>>, <<TRUE, OtherRoot(TRUE)>>,
                      <<TRUE, DriveRoot>>} }
        \cup { [base EXCEPT !.n_jobs = nj] : nj \in 1..MaxJobs }
        \cup { [base EXCEPT !.max_tolerable_failed_images = tol] : tol \in Tolerances }

InitRecon ==
    /\ cfg \in ReconConfigs
    /\ disk = ImagesUnder(cfg)
    /\ Fresh

NextRecon ==
    \/ ConstantsCell
    \/ ValidationCell
    \/ EnumerateFiles
    \/ DivideImages
    \/ WriteFileLists
    \/ GenerateCommands
    \/ EditInputPath
    \/ DetectorsFinish
    \/ LoadAndMergeResults

\* the shipped settings with every job count and checkpoint frequency, for
\* both detector backends
NotebookConfigs ==
    { [DefaultConfig EXCEPT !.n_jobs = nj, !.checkpoint_frequency = cf,
                            !.use_yolo_inference_scripts = yolo] :
        nj \in 1..MaxJobs, cf \in CheckpointFrequencies, yolo \in BOOLEAN }

InitNotebook ==
    /\ cfg \in NotebookConfigs
    /\ disk = ImagesUnder(cfg)
    /\ Fresh

NextNotebook ==
    \/ ConstantsCell
    \/ ValidationCell
    \/ EnumerateFiles
    \/ DivideImages
    \/ WriteFileLists
    \/ GenerateCommands
    \/ CheckpointLeftBehind
    \/ RunTasksInNotebook
    \/ RunInference
    \/ WriteResults
    \/ RemoveCheckpoint

SpecNotebook == InitNotebook /\ [][NextNotebook]_vars

SpecRecon == InitRecon /\ [][NextRecon]_vars

\* the combined result file a session of the same day over the same
\* settings left behind when the image folder held its first image only
EarlierCombined(c) ==
    [info |-> DetectorInfo,
     detection_categories |-> DetectorCategories,
     images |-> <<[file |-> NameOf(1)]>>]

\* the shipped settings with every job count, in a job folder that is
\* empty or holds the combined result file of an earlier session
InitRerun ==
    /\ cfg \in { [DefaultConfig EXCEPT !.max_tolerable_failed_images = 2, !.n_jobs = nj] :
                    nj \in 1..MaxJobs }
    /\ disk = ImagesUnder(cfg)
    /\ FreshSession
    /\ combined_api_output \in {None, Some(EarlierCombined(cfg))}

NextRerun ==
    \/ ConstantsCell
    \/ ValidationCell
    \/ EnumerateFiles
    \/ DivideImages
    \/ WriteFileLists
    \/ GenerateCommands
    \/ DetectorsFinish
    \/ LoadAndMergeResults

SpecRerun == InitRerun /\ [][NextRerun]_vars

\* an ordinary folder on either platform and a drive as input_path
PathConfigs ==
    { [DefaultConfig EXCEPT !.os_name_nt = form[1], !.input_path = form[2]] :
        form \in {<<FALSE, HomeRoot(FALSE)>>, <<TRUE, HomeRoot(TRUE)>>, <<TRUE, DriveRoot>>} }

InitPaths ==
    /\ cfg \in PathConfigs
    /\ disk = {}
    /\ Fresh

NextPaths ==
    \/ FindImage
    \/ MakePathRelative
    \/ JoinRelativePath
    \/ MakePathRelativeAgain

SpecPaths == InitPaths /\ [][NextPaths]_vars

(***************************************************************************)
(* Properties                                                              *)
(***************************************************************************)
Occurrences(x, s) == Cardinality({k \in DOMAIN s : s[k] = x})

IsPermutationOf(s, t) == \A x \in Images : Occurrences(x, s) = Occurrences(x, t)

IsSorted(s) == \A k \in 1..(Len(s) - 1) : s[k] <= s[k + 1]

NoDuplicates(s) == \A j, k \in DOMAIN s : s[j] = s[k] => j = k

Planned == pc \in {"generate", "generated", "regenerated"}

Divided == pc = "write_lists" \/ Planned

\* C1: splitting the sorted image list of m paths into n_jobs chunks gives
\* n_jobs chunks (m chunks when m < n_jobs) whose sizes differ by at most
\* one and whose concatenation in index order is a permutation of the list
\* (each path as often as in the list, so exactly once for a list of distinct
\* paths); one task and one manifest file holding the chunk exist per chunk.
C1_ChunkPlanning ==
    /\ Divided =>
          /\ IsSorted(all_images)
          /\ Len(folder_chunks) =
                 (IF Len(all_images) < cfg.n_jobs THEN Len(all_images) ELSE cfg.n_jobs)
          /\ \A i, j \in DOMAIN folder_chunks :
                 Len(folder_chunks[i]) - Len(folder_chunks[j]) \in {-1, 0, 1}
          /\ IsPermutationOf(Flatten(folder_chunks), all_images)
          /\ Len(Flatten(folder_chunks)) = Len(all_images)
          /\ NoDuplicates(all_images) => NoDuplicates(Flatten(folder_chunks))
    /\ Planned =>
          /\ Len(task_info) = Len(folder_chunks)
          /\ \A i \in DOMAIN task_info :
                 /\ task_info[i].id = i - 1
                 /\ task_info[i].input_file \in DOMAIN manifests
                 /\ manifests[task_info[i].input_file] = folder_chunks[i]
          /\ \A i, j \in DOMAIN task_info :
                 task_info[i].input_file = task_info[j].input_file => i = j

\* three images in two jobs: chunks of two and one, both persisted
C1_Witness ==
    /\ pc = "generate"
    /\ Len(all_images) = 3
    /\ cfg.n_jobs = 2
    /\ Len(folder_chunks) = 2
    /\ Len(folder_chunks[1]) = 2
    /\ Len(folder_chunks[2]) = 1
    /\ manifests[task_info[2].input_file] = folder_chunks[2]

\* C2: once a planning run has persisted manifests for its image list, a
\* later planning run that does not force enumeration loads exactly the paths
\* of that list, each exactly once, whatever n_jobs the runs used and
\* whatever is on disk now.
C2_RecoveryLoadsPersistedSet ==
    [][ (/\ pc = "enumerate"
         /\ pc' = "divide"
         /\ runs > 0
         /\ Len(all_images) > 0
         /\ ~cfg.force_enumeration)
        => (/\ NoDuplicates(all_images')
            /\ {all_images'[k] : k \in DOMAIN all_images'}
                   = {all_images[k] : k \in DOMAIN all_images}) ]_vars

PastValidation ==
    pc \in {"enumerate", "divide", "write_lists", "generate", "generated", "regenerated"}

NoScriptWritten == DOMAIN scripts = {} /\ executable = {} /\ DOMAIN gpu_to_scripts = {}

EnabledModes(c) ==
    {mode \in {"checkpointing", "image_queue", "augmentation", "tiled_inference"} :
        \/ mode = "checkpointing" /\ c.checkpoint_frequency # None
        \/ mode = "image_queue" /\ c.use_image_queue
        \/ mode = "augmentation" /\ c.augment
        \/ mode = "tiled_inference" /\ c.use_tiled_inference}

\* C3 as stated: a configuration enabling two or more of checkpointing,
\* image-queue mode, augmentation and tiled inference never passes the
\* validation cell and no script is written for it.
C3_AnyTwoModesRejected ==
    Cardinality(EnabledModes(cfg)) >= 2 => (~PastValidation /\ NoScriptWritten)

ExcludedPair(c) ==
    \/ {"checkpointing", "image_queue"} \subseteq EnabledModes(c)
    \/ {"checkpointing", "augmentation"} \subseteq EnabledModes(c)
    \/ {"checkpointing", "tiled_inference"} \subseteq EnabledModes(c)
    \/ {"augmentation", "tiled_inference"} \subseteq EnabledModes(c)

\* C3 amended: a configuration enabling checkpointing together with
\* image-queue mode, augmentation or tiled inference, or augmentation
\* together with tiled inference, never passes the validation cell and no
\* script is written for it.
C3_ExcludedPairsRejected ==
    ExcludedPair(cfg) => (~PastValidation /\ NoScriptWritten /\ filename_base = None)

\* the validation cell has halted a run with tiled inference and a
\* checkpoint frequency
C3_Witness ==
    /\ pc = "halted"
    /\ base_task_name # None
    /\ cfg.use_tiled_inference
    /\ cfg.checkpoint_frequency # None
    /\ ~cfg.augment
    /\ ~cfg.use_image_queue

ModeMatrix(c) ==
    /\ c.use_image_queue => c.checkpoint_frequency = None
    /\ c.augment => (c.checkpoint_frequency = None /\ c.use_yolo_inference_scripts)
    /\ c.use_tiled_inference =>
          (c.checkpoint_frequency = None /\ ~c.augment /\ ~c.use_yolo_inference_scripts)

\* C4: the cells after validation, script generation among them, are reached
\* only with a configuration satisfying the mode matrix (image queue => no
\* checkpoint frequency; augmentation => no checkpoint frequency and YOLO
\* backend; tiled inference => no checkpoint frequency, no augmentation, no
\* YOLO backend), and a run whose configuration violates it is halted by the
\* validation cell, before filename_base is built.
C4_ModeMatrix ==
    /\ PastValidation => ModeMatrix(cfg)
    /\ (~ModeMatrix(cfg) /\ base_task_name # None /\ pc # "validation") =>
           (pc = "halted" /\ filename_base = None /\ NoScriptWritten)

\* scripts were generated for a tiled-inference job
C4_Witness ==
    /\ pc = "generated"
    /\ cfg.use_tiled_inference
    /\ Len(task_info) > 0
    /\ DOMAIN scripts # {}

\* C5: when the input root does not exist, or the organization tag or the
\* job date is still its placeholder, the run halts in the constants cell:
\* no job name, output folder or other derived path is built and no
\* directory or file is created.
C5_RequiredConfiguration ==
    (\/ ~cfg.input_path_isdir
     \/ cfg.organization_name_short = "organization"
     \/ cfg.job_date = None)
    => (/\ pc \in {"constants", "halted"}
        /\ base_task_name = None
        /\ base_output_folder_name = None
        /\ filename_base = None
        /\ dirs = {}
        /\ DOMAIN manifests = {}
        /\ DOMAIN scripts = {})

\* a run with everything set but the job date has halted
C5_Witness ==
    /\ pc = "halted"
    /\ cfg.job_date = None
    /\ cfg.input_path_isdir
    /\ cfg.organization_name_short # "organization"

Generated == pc \in {"generated", "regenerated"}

WordsOf(cmd) == {cmd[k] : k \in DOMAIN cmd}

HasFlag(cmd, flag) == <<flag>> \in WordsOf(cmd)

\* the word that follows the first occurrence of a flag
ValueAfter(cmd, flag) ==
    cmd[(CHOOSE k \in DOMAIN cmd : cmd[k] = <<flag>> /\ \A j \in 1..(k - 1) : cmd[j] # <<flag>>) + 1]

Decimal(n) == <<"0", "1", "2", "3", "4", "5", "6", "7", "8", "9">>[n + 1]

TwoDigits(n) == "0" \o Decimal(n)

WorkerIndices == 0..MaxGpus

\* the worker a task index is to be assigned to
ExpectedWorker(i_task) == IF cfg.n_gpus > 1 THEN i_task % cfg.n_gpus ELSE 0

\* the worker named by the device selector of a command
SelectedDevices(cmd) ==
    {g \in WorkerIndices :
        \/ <<"CUDA_VISIBLE_DEVICES=", Decimal(g)>> \in WordsOf(cmd)
        \/ HasFlag(cmd, "--device") /\ ValueAfter(cmd, "--device") = <<Decimal(g)>>}

\* the workers whose list in gpu_to_scripts holds a script
WorkersListing(file) ==
    {g \in DOMAIN gpu_to_scripts : \E k \in DOMAIN gpu_to_scripts[g] : gpu_to_scripts[g][k] = file}

\* C6: task i is assigned worker i mod n_gpus when n_gpus > 1 and the default
\* worker 0 when n_gpus = 1, and that one index is the one in the script file
\* name, in the device selector of the command and in the worker-to-scripts
\* map.
C6_WorkerAssignment ==
    Generated =>
        \A i \in DOMAIN task_info :
            LET task == task_info[i]
                g == ExpectedWorker(i - 1)
            IN  /\ task.command_file[Len(task.command_file) - 1] = TwoDigits(g)
                /\ task.command_file[Len(task.command_file) - 2] = "_gpu_"
                /\ SelectedDevices(task.command) = {g}
                /\ WorkersListing(task.command_file) = {g}

\* three tasks on two workers: the third task is back on worker 0
C6_Witness ==
    /\ pc = "generated"
    /\ cfg.n_gpus = 2
    /\ Len(task_info) = 3
    /\ Len(gpu_to_scripts[0]) = 2
    /\ gpu_to_scripts[0][2] = task_info[3].command_file
    /\ gpu_to_scripts[1] = <<task_info[2].command_file>>

CarriesCheckpointFlags(cmd) ==
    HasFlag(cmd, "--checkpoint_frequency") /\ HasFlag(cmd, "--checkpoint_path")

\* C7: a task has a resume command and a resume script exactly when its main
\* command carries the checkpoint-frequency and checkpoint-path flags, and
\* then the resume command is the main command followed by
\* --resume_from_checkpoint and the task's checkpoint path.
C7_ResumeIffCheckpointing ==
    Generated =>
        \A i \in DOMAIN task_info :
            LET task == task_info[i] IN
                /\ ("resume_command" \in DOMAIN task) <=> CarriesCheckpointFlags(task.command)
                /\ ("resume_command_file" \in DOMAIN task) <=> CarriesCheckpointFlags(task.command)
                /\ "resume_command_file" \in DOMAIN task =>
                       task.resume_command_file \in DOMAIN scripts
                /\ "resume_command" \in DOMAIN task =>
                       task.resume_command =
                           task.command \o <<<<"--resume_from_checkpoint">>,
                                              ValueAfter(task.command, "--checkpoint_path")>>

OptionalFlags ==
    {"--image_size", "--checkpoint_frequency", "--checkpoint_path", "--use_image_queue",
     "--ncores", "--quiet", "--threshold", "--conf_thres", "--include_image_size",
     "--include_image_timestamp", "--include_exif_data", "--detector_options"}

\* the setting behind an optional flag is set
FlagValueSet(c, flag) ==
    CASE flag = "--image_size" -> c.image_size # None
      [] flag \in {"--checkpoint_frequency", "--checkpoint_path"} ->
             c.checkpoint_frequency # None /\ c.checkpoint_frequency[1] > 0
      [] flag = "--use_image_queue" -> c.use_image_queue
      [] flag = "--ncores" -> c.ncores > 1
      [] flag = "--quiet" -> c.quiet_mode
      [] flag \in {"--threshold", "--conf_thres"} -> c.json_threshold # None
      [] flag = "--include_image_size" -> c.include_image_size
      [] flag = "--include_image_timestamp" -> c.include_image_timestamp
      [] flag = "--include_exif_data" -> c.include_exif_data
      [] flag = "--detector_options" -> c.detector_options # None

\* C8 as stated: in every chunk command of every backend an optional flag
\* appears only when its setting is set.
C8_FlagsOnlyWhenSet ==
    Generated =>
        \A i \in DOMAIN task_info : \A flag \in OptionalFlags :
            HasFlag(task_info[i].command, flag) => FlagValueSet(cfg, flag)

\* C8 amended: in every chunk command of every backend an optional flag
\* appears only when its setting is set, except that the YOLO command always
\* carries --conf_thres, with the default output threshold when
\* json_threshold is None and with json_threshold otherwise.
C8_FlagsOnlyWhenSetButYoloThreshold ==
    Generated =>
        \A i \in DOMAIN task_info :
            LET cmd == task_info[i].command IN
                /\ \A flag \in OptionalFlags \ {"--conf_thres"} :
                       HasFlag(cmd, flag) => FlagValueSet(cfg, flag)
                /\ HasFlag(cmd, "--conf_thres") <=> cfg.use_yolo_inference_scripts
                /\ HasFlag(cmd, "--conf_thres") =>
                       ValueAfter(cmd, "--conf_thres") =
                           (IF cfg.json_threshold # None THEN <<cfg.json_threshold[1]>>
                            ELSE <<"0.005">>)
                /\ \A k \in DOMAIN cmd : cmd[k] # <<>> /\ cmd[k] # <<"">>

\* a YOLO command with an image size and without a threshold override
C8_Witness ==
    /\ pc = "generated"
    /\ cfg.use_yolo_inference_scripts
    /\ cfg.json_threshold = None
    /\ cfg.image_size # None
    /\ Len(task_info) > 0
    /\ HasFlag(task_info[1].command, "--image_size")
    /\ HasFlag(task_info[1].command, "--conf_thres")

\* C9: running the "Generate commands" cell again on the state its first run
\* left, with the same settings and chunk list, yields the same commands,
\* resume commands, script file names, script texts and worker-to-scripts
\* map.
C9_RegenerationIdentical ==
    [][ (pc = "generated" /\ pc' = "regenerated")
        => (/\ task_info' = task_info
            /\ gpu_to_scripts' = gpu_to_scripts
            /\ scripts' = scripts
            /\ executable' = executable) ]_vars

\* the cell was run twice for a YOLO job whose debug-output setting the
\* first run had overwritten
C9_Witness ==
    /\ pc = "regenerated"
    /\ cfg.use_yolo_inference_scripts
    /\ cfg.write_yolo_debug_output = <<"str", "--write_yolo_debug_output">>
    /\ Len(task_info) >= 2
    /\ DOMAIN gpu_to_scripts # {}

IsGpuScript(path) == \E k \in DOMAIN path : path[k] = "run_all_for_gpu_"

IsResumeScript(path) == \E k \in DOMAIN path : path[k] = "resume_chunk_"

GpuScriptsOf(g) ==
    {p \in DOMAIN scripts : IsGpuScript(p) /\ p[Len(p) - 1] = TwoDigits(g)}

InvokesScript(line) == Len(line) > 0 /\ line[Len(line)] \in DOMAIN scripts

\* the scripts a consolidated script invokes, in order
Invocations(text) ==
    LET lines == SelectSeq(text, InvokesScript)
    IN  [k \in DOMAIN lines |-> lines[k][Len(lines[k])]]

\* every place (consolidated script, position) where a script is invoked
InvocationSites ==
    UNION { {<<p, k>> : k \in DOMAIN Invocations(scripts[p])} :
            p \in {q \in DOMAIN scripts : IsGpuScript(q)} }

AssignedTo(g, task) == ExpectedWorker(task.id) = g

\* the chunk scripts of the tasks of worker g, in increasing task order
ExpectedInvocations(g) ==
    LET mine == SelectSeq(task_info, LAMBDA task : AssignedTo(g, task))
    IN  [k \in DOMAIN mine |-> mine[k].command_file]

\* C10: there is exactly one consolidated script for each worker that has a
\* task and none for a worker without; it invokes that worker's chunk scripts
\* in increasing task order and ends with the completion marker naming the
\* worker; over all consolidated scripts every chunk script is invoked
\* exactly once and no resume script is invoked.
C10_PerWorkerAggregation ==
    Generated =>
        /\ \A g \in WorkerIndices :
               IF ExpectedInvocations(g) = <<>> THEN GpuScriptsOf(g) = {}
               ELSE /\ Cardinality(GpuScriptsOf(g)) = 1
                    /\ \A p \in GpuScriptsOf(g) :
                           /\ Invocations(scripts[p]) = ExpectedInvocations(g)
                           /\ scripts[p][Len(scripts[p])] =
                                  << <<"echo">>,
                                     <<"\"Finished all commands for GPU ", Decimal(g), "\"">> >>
                           /\ p \in executable
        /\ \A p \in DOMAIN scripts : IsGpuScript(p) => \E g \in WorkerIndices : p \in GpuScriptsOf(g)
        /\ \A i \in DOMAIN task_info :
               Cardinality({site \in InvocationSites :
                               Invocations(scripts[site[1]])[site[2]] = task_info[i].command_file}) = 1
        /\ \A p \in DOMAIN scripts :
               IsGpuScript(p) =>
                   \A k \in DOMAIN Invocations(scripts[p]) :
                       ~IsResumeScript(Invocations(scripts[p])[k])

\* on Windows, with checkpointing, three tasks on two workers: worker 0's
\* script calls the scripts of tasks 0 and 2
C10_Witness ==
    /\ pc = "generated"
    /\ cfg.n_gpus = 2
    /\ cfg.os_name_nt
    /\ cfg.checkpoint_frequency # None
    /\ Len(task_info) = 3
    /\ \E p \in GpuScriptsOf(0) :
           Invocations(scripts[p]) = <<task_info[1].command_file, task_info[3].command_file>>
    /\ \E p \in DOMAIN scripts : IsResumeScript(p)

(***************************************************************************)
(* C11  Fail-fast per-GPU scripts: once a chunk script run by a per-GPU    *)
(* script has ended with a non-zero status, that per-GPU script starts no  *)
(* further chunk script and does not print its completion marker, on both  *)
(* platforms.                                                              *)
(***************************************************************************)
C11_FailFast ==
    \A g \in DOMAIN procs :
        \A k \in DOMAIN procs[g].ran :
            procs[g].ran[k].code # 0 => (k = Len(procs[g].ran) /\ ~procs[g].echoed)

(***************************************************************************)
(* The results cell                                                        *)
(***************************************************************************)
\* the results cell has run to its end or to a raised error
ResultsCellRan == pc = "reconciled" \/ raised # None

AllOutputsExist == \A k \in DOMAIN task_info : task_info[k].output_file \in DOMAIN outputs

\* no combined result, in memory or on disk
NothingCombined == combined_results = None /\ combined_api_output = None

(***************************************************************************)
(* C12  Missing-output gate: the results cell raises 'Missing output       *)
(* files' exactly when the output file of at least one task does not       *)
(* exist; the list it reports is exactly the missing output files, all of  *)
(* them; and when it raises, no task has results or a failure count        *)
(* attached and nothing was loaded or combined.                            *)
(***************************************************************************)
C12_MissingOutputGate ==
    ResultsCellRan =>
        LET absent == {k \in DOMAIN task_info : task_info[k].output_file \notin DOMAIN outputs}
        IN  /\ (raised = Some("Missing output files")) <=> (absent # {})
            /\ absent # {} =>
                  /\ Range(missing_output_files) = {task_info[k].output_file : k \in absent}
                  /\ Len(missing_output_files) = Cardinality(absent)
                  /\ \A k \in DOMAIN task_info :
                         "results" \notin DOMAIN task_info[k]
                         /\ "n_failures" \notin DOMAIN task_info[k]
                  /\ n_total_failures = 0
                  /\ NothingCombined

\* the cell stopped on two missing output files while another task's output exists
C12_Witness ==
    /\ raised = Some("Missing output files")
    /\ Len(missing_output_files) = 2
    /\ Len(task_info) = 3

\* the result file of task k
OutputOf(k) == outputs[task_info[k].output_file]

\* the paths of the manifest of task k
ManifestOf(k) == Range(TaskImages(cfg, task_info[k]))

\* the normalized path of record j of the result file of task k
ReportedFile(k, j) == Normalized(cfg, OutputOf(k).images[j]).file

\* the records of all result files
ReportSites == UNION { {<<k, j>> : j \in DOMAIN OutputOf(k).images} : k \in DOMAIN task_info }

\* the records of all result files that carry a failure marker
FailureSites == {site \in ReportSites : "failure" \in DOMAIN OutputOf(site[1]).images[site[2]]}

FailureTotal == Cardinality(FailureSites)

\* the errors of the validation pass before its tolerance check
ValidationErrors ==
    { Some("Missing output files"),
      Some("assert im['file'].startswith(input_path)"),
      Some("assert im['file'] in task_images_set"),
      Some("assert im['failure'] is not None"),
      Some("File not found in results") }

TooManyFailures == Some("assert n_total_failures < max_tolerable_failed_images")

\* the paths of the records of a combined result, in order
FilesOf(combined) == [i \in DOMAIN combined[1].images |-> combined[1].images[i].file]

(***************************************************************************)
(* C13  Manifest completeness: when an image of the manifest of some task  *)
(* has no record in the result file of that task, the results cell fails   *)
(* and produces no combined result, also when every output file exists     *)
(* and the failures are below the tolerance.                               *)
(***************************************************************************)
C13_ManifestCompleteness ==
    (/\ ResultsCellRan
     /\ AllOutputsExist
     /\ \E k \in DOMAIN task_info : \E fn \in ManifestOf(k) :
            \A j \in DOMAIN OutputOf(k).images : ReportedFile(k, j) # fn)
    => (raised # None /\ NothingCombined)

\* the cell stopped on an unreported image of the second of two tasks, with
\* all output files present and no failure
C13_Witness ==
    /\ raised = Some("File not found in results")
    /\ AllOutputsExist
    /\ FailureTotal = 0
    /\ Len(task_info) = 2
    /\ "results" \in DOMAIN task_info[1]
    /\ Len(OutputOf(2).images) < Cardinality(ManifestOf(2))

(***************************************************************************)
(* C14  Cross-contamination: when a record of a result file, after         *)
(* normalization, names a path that is not in the manifest of the same     *)
(* task, the results cell fails and produces no combined result.           *)
(***************************************************************************)
C14_CrossContamination ==
    (/\ ResultsCellRan
     /\ AllOutputsExist
     /\ \E site \in ReportSites : ReportedFile(site[1], site[2]) \notin ManifestOf(site[1]))
    => (raised # None /\ NothingCombined)

\* the cell stopped on a record that names an image of another task's manifest
C14_Witness ==
    /\ raised = Some("assert im['file'] in task_images_set")
    /\ AllOutputsExist
    /\ \E site \in ReportSites : \E k \in DOMAIN task_info :
           /\ k # site[1]
           /\ ReportedFile(site[1], site[2]) \in ManifestOf(k)

(***************************************************************************)
(* C15  Uniqueness: a combined result that was written names no path in    *)
(* two records; and when two records of the result files, of two tasks or  *)
(* of one, have the same normalized path, the results cell fails and       *)
(* writes no combined result.                                              *)
(***************************************************************************)
C15_Uniqueness ==
    (ResultsCellRan /\ AllOutputsExist) =>
        /\ combined_api_output # None => NoDuplicates(FilesOf(combined_api_output))
        /\ (\E s, t \in ReportSites :
                s # t /\ ReportedFile(s[1], s[2]) = ReportedFile(t[1], t[2]))
           => (raised # None /\ combined_api_output = None)

\* the cell stopped in the merge on an image one result file reports twice,
\* once with a relative and once with an absolute path
C15_Witness ==
    /\ raised = Some("assert im['file'] not in images_processed")
    /\ \E s, t \in ReportSites :
           /\ s[1] = t[1] /\ s[2] # t[2]
           /\ ReportedFile(s[1], s[2]) = ReportedFile(t[1], t[2])
           /\ OutputOf(s[1]).images[s[2]].file # OutputOf(t[1]).images[t[2]].file

ValidResults ==
    /\ AllOutputsExist
    /\ \A k \in DOMAIN task_info :
           /\ Len(OutputOf(k).images) = Cardinality(ManifestOf(k))
           /\ {ReportedFile(k, j) : j \in DOMAIN OutputOf(k).images} = ManifestOf(k)
           /\ \A j \in DOMAIN OutputOf(k).images :
                  /\ StartsWith(ReportedFile(k, j), cfg.input_path)
                  /\ "failure" \in DOMAIN OutputOf(k).images[j]
                         => OutputOf(k).images[j].failure # None
           /\ OutputOf(k).info.format_version = OutputOf(1).info.format_version
           /\ OutputOf(k).detection_categories = OutputOf(1).detection_categories
    /\ \A k, m \in DOMAIN task_info : k # m => ManifestOf(k) \cap ManifestOf(m) = {}
    /\ FailureTotal < cfg.max_tolerable_failed_images

C18_MetadataConsistency ==
    (ResultsCellRan /\ AllOutputsExist) =>
        /\ combined_api_output # None =>
              /\ combined_api_output[1].info = OutputOf(1).info
              /\ combined_api_output[1].detection_categories = OutputOf(1).detection_categories
        /\ (\E k \in DOMAIN task_info :
                \/ OutputOf(k).info.format_version # OutputOf(1).info.format_version
                \/ OutputOf(k).detection_categories # OutputOf(1).detection_categories)
           => (raised # None /\ combined_api_output = None)

\* the merge stopped on the second task, whose categories differ from the
\* first task's while its format version is the same
C18_Witness ==
    /\ raised = Some("assert on format_version / detection_categories")
    /\ Len(task_info) >= 2
    /\ OutputOf(2).detection_categories # OutputOf(1).detection_categories
    /\ OutputOf(2).info.format_version = OutputOf(1).info.format_version
    /\ combined_results # None

\* input_path and the separator that follows it in the path of an image
RootPrefix(c) == IF EndsWith(c.input_path, ":") THEN c.input_path ELSE c.input_path \o <<"/">>

C20_RelativePaths ==
    combined_api_output # None =>
        \A i \in DOMAIN FilesOf(combined_api_output) :
            LET file == FilesOf(combined_api_output)[i]
            IN  /\ \E site \in ReportSites :
                       ReportedFile(site[1], site[2]) = RootPrefix(cfg) \o file
                /\ "\\" \notin Range(file)
                /\ ~StartsWith(file, <<"/">>)
                /\ ~StartsWith(file, cfg.input_path)

\* some record of the result files, or some image of a manifest, fails one
\* of the checks of the results cell
SomeCheckFails ==
    \/ ~AllOutputsExist
    \/ /\ AllOutputsExist
       /\ \/ \E site \in ReportSites :
                 \/ ~StartsWith(ReportedFile(site[1], site[2]), cfg.input_path)
                 \/ ReportedFile(site[1], site[2]) \notin ManifestOf(site[1])
          \/ \E k \in DOMAIN task_info : \E fn \in ManifestOf(k) :
                 \A j \in DOMAIN OutputOf(k).images : ReportedFile(k, j) # fn
          \/ FailureTotal >= cfg.max_tolerable_failed_images
          \/ \E k \in DOMAIN task_info :
                 \/ OutputOf(k).info.format_version # OutputOf(1).info.format_version
                 \/ OutputOf(k).detection_categories # OutputOf(1).detection_categories
          \/ \E s, t \in ReportSites :
                 s # t /\ ReportedFile(s[1], s[2]) = ReportedFile(t[1], t[2])
          \/ Cardinality(ReportSites) # Len(all_images)

(***************************************************************************)
(* C21  No partial merge: a run of the results cell in which an output     *)
(* file is missing, a path is outside the root or not in the manifest, a   *)
(* manifest image has no record, the tolerance is exceeded, the metadata   *)
(* differ, a path is duplicated or the count does not match, or which      *)
(* raises any error, leaves the combined result file as it was, absent or  *)
(* with the content of an earlier session; the file changes only in a run  *)
(* that raises nothing.                                                    *)
(***************************************************************************)
C21_NoPartialMerge ==
    [][(pc = "results" /\ pc' # "results") =>
          /\ (SomeCheckFails \/ raised' # None) => combined_api_output' = combined_api_output
          /\ combined_api_output' # combined_api_output =>
                (pc' = "reconciled" /\ combined_api_output' = combined_results')]_vars

\* the merge stopped on a duplicated path after it had combined the records
\* of a task in memory, and the file of the earlier session is still there
C21_Witness ==
    /\ pc = "halted"
    /\ raised = Some("assert im['file'] not in images_processed")
    /\ combined_results # None
    /\ combined_api_output = Some(EarlierCombined(cfg))

(***************************************************************************)
(* C22  Tolerance as documented: once every task has passed the per-task   *)
(* checks, the results cell fails on the tolerance only when more than     *)
(* max_tolerable_failed_images records carry a failure; with exactly that  *)
(* many failures, none when the limit is 0, it goes on to the merge.       *)
(***************************************************************************)
C22_ToleranceAsDocumented ==
    (ResultsCellRan /\ raised \notin ValidationErrors) =>
        ((raised = TooManyFailures) <=> (FailureTotal > cfg.max_tolerable_failed_images))

\* the paths of the manifests that no record of the result file of their
\* task names
UnreportedImages ==
    UNION { {fn \in ManifestOf(k) :
                \A j \in DOMAIN OutputOf(k).images : ReportedFile(k, j) # fn}
            : k \in DOMAIN task_info }

\* the paths that two records of the result files name
DuplicatedPaths ==
    {ReportedFile(s[1], s[2]) : s \in {s \in ReportSites : \E t \in ReportSites :
         t # s /\ ReportedFile(t[1], t[2]) = ReportedFile(s[1], s[2])}}

(***************************************************************************)
(* C23  Full error reports: when the results cell fails because output     *)
(* files are missing, the error output names every missing output file;    *)
(* when it fails because images of a manifest have no record, it names     *)
(* every such image, not only the first; when it fails because a path is   *)
(* in two records, it names every such path.                               *)
(***************************************************************************)
C23_FullErrorReports ==
    /\ raised = Some("Missing output files") =>
          Range(printed) = {task_info[k].output_file :
                                k \in {j \in DOMAIN task_info :
                                          task_info[j].output_file \notin DOMAIN outputs}}
    /\ raised = Some("File not found in results") =>
          UnreportedImages \subseteq Range(printed)
    /\ raised \in {Some("assert im['file'] not in images_processed"),
                   Some("assert on uniqueness")} =>
          DuplicatedPaths \subseteq Range(printed)

\* the records of the result file of task k that carry a failure marker
\* that is not null
NonNullFailures(k) ==
    {j \in DOMAIN OutputOf(k).images :
        /\ "failure" \in DOMAIN OutputOf(k).images[j]
        /\ OutputOf(k).images[j].failure # None}

RECURSIVE SumOfTaskFailures(_)
\* the sum of the failure counts attached to the first n tasks
SumOfTaskFailures(n) ==
    IF n = 0 THEN 0 ELSE SumOfTaskFailures(n - 1) + task_info[n].n_failures

\* the validation pass went over every task
ValidationPassed == ResultsCellRan /\ raised \notin ValidationErrors

(***************************************************************************)
(* C24  Failure counting: the failure count the validation pass attaches   *)
(* to a task is the number of records of its result file whose failure     *)
(* marker is present and not null; after the pass the total is the sum of  *)
(* the counts of the tasks; and a null failure marker is not counted and   *)
(* does not stop the results cell.                                         *)
(***************************************************************************)
C24_FailureCounting ==
    /\ \A k \in DOMAIN task_info :
           "n_failures" \in DOMAIN task_info[k] =>
               task_info[k].n_failures = Cardinality(NonNullFailures(k))
    /\ ValidationPassed => n_total_failures = SumOfTaskFailures(Len(task_info))
    /\ raised # Some("assert im['failure'] is not None")

\* the absolute path of the image a relative path of a result file names
AbsoluteOf(c, file) ==
    IF IsAbs(c.os_name_nt, file) THEN file
    ELSE LET named == {i \in Images \cup {ForeignImage} : RelativeName(c, i) = file}
         IN  IF named = {} THEN file ELSE ImagePath(c, CHOOSE i \in named : TRUE)

\* the result files with every image reported under its absolute path
AbsoluteReports(c, files) ==
    [f \in DOMAIN files |->
        [files[f] EXCEPT !.images =
            [k \in DOMAIN files[f].images |->
                [files[f].images[k] EXCEPT !.file = AbsoluteOf(c, files[f].images[k].file)]]]]

(***************************************************************************)
(* C25  Relative and absolute result paths are equivalent: a run of the    *)
(* results cell stops on the same check, or succeeds, and writes the same  *)
(* combined result as it does on result files that report the same images  *)
(* under their absolute paths; and every path it accepts lies under        *)
(* input_path.                                                             *)
(***************************************************************************)
C25_RelativeAbsoluteEquivalent ==
    [][(pc = "results" /\ pc' # "results") =>
          /\ raised' = ResultsCellOn(cfg, AbsoluteReports(cfg, outputs)).error
          /\ combined_api_output' = ResultsCellOn(cfg, AbsoluteReports(cfg, outputs)).written
          /\ (AllOutputsExist /\ raised' \notin ValidationErrors) =>
                \A site \in ReportSites :
                    StartsWith(ReportedFile(site[1], site[2]), RootPrefix(cfg))]_vars

(***************************************************************************)
(* Concurrent execution                                                    *)
(***************************************************************************)
\* the runs of chunk scripts by the shell of GPU g, as tasks
RunsOf(g) == [k \in DOMAIN procs[g].ran |-> TaskOfScript(procs[g].ran[k].script)]

\* the shells that wrote the output file f
OutputWriters(f) ==
    {g \in DOMAIN procs : \E k \in DOMAIN procs[g].ran :
        procs[g].ran[k].code = 0 /\ RunsOf(g)[k].output_file = f}

\* the shells whose commands were given the checkpoint file f to write
CheckpointWriters(f) ==
    {g \in DOMAIN procs : \E k \in DOMAIN procs[g].ran :
        CheckpointFilename(RunsOf(g)[k].input_file) = f}

\* the shells that ran the chunk script at path
RunnersOf(path) ==
    {g \in DOMAIN procs : \E k \in DOMAIN procs[g].ran : procs[g].ran[k].script = path}

\* the paths of one task: manifest, output, checkpoint and script
PathsOfTask(task) ==
    {task.input_file, task.output_file, CheckpointFilename(task.input_file), task.command_file}

(***************************************************************************)
(* C26  Exclusive ownership: while the per-GPU scripts run as concurrent   *)
(* shells, in any interleaving, every output file that exists and every    *)
(* checkpoint file a command was given has exactly one shell that writes   *)
(* it, every chunk script is listed by exactly one per-GPU script and run  *)
(* by at most one shell, at most once, and no two tasks share a manifest,  *)
(* output, checkpoint or script path.                                      *)
(***************************************************************************)
C26_ExclusiveOwnership ==
    pc = "generated" =>
        /\ \A f \in DOMAIN outputs : Cardinality(OutputWriters(f)) = 1
        /\ \A g \in DOMAIN procs : \A k \in DOMAIN procs[g].ran :
               /\ CheckpointWriters(CheckpointFilename(RunsOf(g)[k].input_file)) = {g}
               /\ RunnersOf(procs[g].ran[k].script) = {g}
               /\ \A j \in DOMAIN procs[g].ran : j # k =>
                      procs[g].ran[j].script # procs[g].ran[k].script
        /\ \A i \in DOMAIN task_info :
               Cardinality({g \in DOMAIN gpu_to_scripts :
                               task_info[i].command_file \in Range(gpu_to_scripts[g])}) = 1
        /\ \A i, j \in DOMAIN task_info :
               i # j => PathsOfTask(task_info[i]) \cap PathsOfTask(task_info[j]) = {}
        /\ \A i \in DOMAIN task_info : Cardinality(PathsOfTask(task_info[i])) = 4

\* two shells are running at once, each has run a chunk script, and one of
\* them has run two
C26_Witness ==
    /\ pc = "generated"
    /\ Cardinality({g \in DOMAIN procs : procs[g].state = "running"}) = 2
    /\ \A g \in DOMAIN procs : Len(procs[g].ran) >= 1
    /\ \E g \in DOMAIN procs : Len(procs[g].ran) = 2
    /\ Cardinality(DOMAIN outputs) >= 2

(***************************************************************************)
(* The tasks run in the notebook                                           *)
(***************************************************************************)
\* the positions of the events of one kind for one task
EventsOf(kind, i) == {p \in DOMAIN events : events[p] = [kind |-> kind, task |-> i]}

(***************************************************************************)
(* C27  In-process execution: the inferences start in task order, one per  *)
(* task, and the inference of a task starts only after the result file of  *)
(* the task before it was written; a checkpoint file is deleted only after *)
(* the result file of its task was written and only when                   *)
(* checkpoint_frequency is set and positive; and when the cell has run to  *)
(* its end every task has its output file and, with checkpointing set, no  *)
(* task has a checkpoint file left.                                        *)
(***************************************************************************)
C27_InProcessExecution ==
    /\ \A p \in DOMAIN events :
           /\ events[p].kind = "inference" =>
                 /\ events[p].task = Cardinality({q \in 1..(p - 1) : events[q].kind = "inference"})
                 /\ events[p].task > 0 =>
                        \E q \in 1..(p - 1) :
                            events[q] = [kind |-> "written", task |-> events[p].task - 1]
           /\ events[p].kind = "deleted" =>
                 /\ \E q \in 1..(p - 1) : events[q] = [kind |-> "written", task |-> events[p].task]
                 /\ cfg.checkpoint_frequency # None
                 /\ cfg.checkpoint_frequency[1] > 0
    /\ pc = "tasks_done" =>
          \A i \in DOMAIN task_info :
              /\ task_info[i].output_file \in DOMAIN outputs
              /\ EventsOf("written", i - 1) # {}
              /\ (cfg.checkpoint_frequency # None /\ cfg.checkpoint_frequency[1] > 0)
                    => CheckpointFilename(task_info[i].input_file) \notin checkpoints

\* the cell ran three tasks to the end with checkpointing set and deleted
\* the checkpoint file of the second one
C27_Witness ==
    /\ pc = "tasks_done"
    /\ Len(task_info) = 3
    /\ cfg.checkpoint_frequency = Some(10000)
    /\ EventsOf("deleted", 1) # {}
    /\ EventsOf("deleted", 0) = {}

(***************************************************************************)
(* Malformed manifests                                                     *)
(***************************************************************************)
\* the manifest files the recovery scan finds whose content is not a list
MalformedManifests ==
    {p \in DOMAIN manifests :
        /\ PatternMatch(NameIn(filename_base[1], p))
        /\ manifests[p] = NotAList}

(***************************************************************************)
(* C28  Malformed manifests: a run of the enumeration cell that uses the   *)
(* persisted manifests (enumeration not forced) while one of them is not a *)
(* list halts the notebook there, so that no later cell of the run        *)
(* executes; it rewrites no manifest and generates no script.              *)
(***************************************************************************)
C28_MalformedManifests ==
    [][(pc = "enumerate" /\ ~cfg.force_enumeration /\ MalformedManifests # {}) =>
          /\ pc' = "halted"
          /\ manifests' = manifests
          /\ scripts' = scripts
          /\ task_info' = task_info]_vars

\* planning halted on the second of three manifests, the first one loaded
C28_Witness ==
    /\ pc = "halted"
    /\ ~cfg.force_enumeration
    /\ Cardinality(MalformedManifests) = 1
    /\ Cardinality(chunk_files) = 3
    /\ Len(all_images) > 0
    /\ scripts = <<>>

\* the manifest files the recovery scan of the next run would find
ManifestFilesFound ==
    {p \in DOMAIN manifests : PatternMatch(NameIn(filename_base[1], p))}

(***************************************************************************)
(* C29  Manifest files stay a partition: whenever a planning run has       *)
(* written its file lists, the files of the job folder that match the      *)
(* manifest pattern are pairwise disjoint, there are as many of them as    *)
(* the run has chunks, and together they list exactly the images of the    *)
(* run; no result file and no checkpoint file matches the pattern.         *)
(***************************************************************************)
C29_ManifestsStayPartition ==
    pc = "generate" =>
        /\ \A p, q \in ManifestFilesFound :
               p # q => Range(manifests[p]) \cap Range(manifests[q]) = {}
        /\ Cardinality(ManifestFilesFound) = Len(folder_chunks)
        /\ UNION {Range(manifests[p]) : p \in ManifestFilesFound} = Range(all_images)
        /\ \A f \in DOMAIN outputs \cup checkpoints :
               ~PatternMatch(NameIn(filename_base[1], f))

(***************************************************************************)
(* C30  YOLO debug-output flag: a run of the cell that generates the       *)
(* commands with the YOLO backend renders --write_yolo_debug_output into   *)
(* the command of every task exactly when write_yolo_debug_output is set,  *)
(* and leaves the settings as they were.                                   *)
(***************************************************************************)
C30_YoloDebugFlag ==
    [][(/\ pc \in {"generate", "generated"}
        /\ pc' \in {"generated", "regenerated"}
        /\ cfg.use_yolo_inference_scripts) =>
          /\ \A i \in DOMAIN task_info' :
                 HasFlag(task_info'[i].command, "--write_yolo_debug_output")
                    <=> Truthy(cfg.write_yolo_debug_output)
          /\ cfg' = cfg]_vars

====
